---- MODULE Spec2Model ----
(***************************************************************************)
(* License resolution pipeline of the Free Music Finder dataset tools:     *)
(* the accelerated missing-license fixer (evidence reconciliation, the     *)
(* fallback chain, the worker pool, the dataset merge) and the report      *)
(* reconciler that replays the fixer's run reports.                        *)
(***************************************************************************)
EXTENDS Integers, Sequences, FiniteSets, TLC

\* ------------------------------------------------------------------------
\* Values shared by all parts of the model
\* ------------------------------------------------------------------------

\* JavaScript null / undefined in a numeric field (license, bc_id, HTTP status).
Null == 0

\* The absent decision: decideMappedId returns null.
NoDecision == [bcId |-> Null, source |-> "none"]

\* The only member of a one-element set: [...set][0].
TheOnly(S) == CHOOSE x \in S : TRUE

\* ------------------------------------------------------------------------
\* Evidence Reconciler: decideMappedId
\* ------------------------------------------------------------------------

\* Candidate ids the three strategies may report in the reconciler's own check.
DecideIds == {3, 4, 5}

\* A plausible slip: the unanimous union tried before the single type id.
decideMappedIdUnionFirst(typeIds, sectionIds, nameIds) ==
    LET all == typeIds \cup sectionIds \cup nameIds
    IN  IF Cardinality(all) = 1
        THEN [bcId |-> TheOnly(all), source |-> "combined_single"]
        ELSE IF Cardinality(typeIds) = 1
        THEN [bcId |-> TheOnly(typeIds), source |-> "license_type"]
        ELSE IF Cardinality(sectionIds) = 1
        THEN [bcId |-> TheOnly(sectionIds), source |-> "license_section"]
        ELSE IF Cardinality(nameIds) = 1
        THEN [bcId |-> TheOnly(nameIds), source |-> "license_name"]
        ELSE NoDecision

\* A plausible slip: the name marker consulted before the section link.
decideMappedIdNameFirst(typeIds, sectionIds, nameIds) ==
    IF Cardinality(typeIds) = 1
    THEN [bcId |-> TheOnly(typeIds), source |-> "license_type"]
    ELSE IF Cardinality(typeIds \cup sectionIds \cup nameIds) = 1
    THEN [bcId |-> TheOnly(typeIds \cup sectionIds \cup nameIds),
          source |-> "combined_single"]
    ELSE IF Cardinality(nameIds) = 1
    THEN [bcId |-> TheOnly(nameIds), source |-> "license_name"]
    ELSE IF Cardinality(sectionIds) = 1
    THEN [bcId |-> TheOnly(sectionIds), source |-> "license_section"]
    ELSE NoDecision

decideMappedId(typeIds, sectionIds, nameIds) ==
    IF Cardinality(typeIds) = 1
    THEN [bcId |-> TheOnly(typeIds), source |-> "license_type"]
    ELSE LET all == typeIds \cup sectionIds \cup nameIds
         IN  IF Cardinality(all) = 1
             THEN [bcId |-> TheOnly(all), source |-> "combined_single"]
             ELSE IF Cardinality(sectionIds) = 1
             THEN [bcId |-> TheOnly(sectionIds), source |-> "license_section"]
             ELSE IF Cardinality(nameIds) = 1
             THEN [bcId |-> TheOnly(nameIds), source |-> "license_name"]
             ELSE NoDecision

\* ------------------------------------------------------------------------
\* Data: URLs, listing records, license categories, pages
\* ------------------------------------------------------------------------

\* A URL is modelled by what the code reads of it: its host (hostnameOf) and
\* its album slug (slugOfAlbumUrl).
NoUrl == [host |-> "none", slug |-> "none"]

hostnameOf(url) == url.host

slugOfAlbumUrl(url) == url.slug

\* src/data/licenses.json as the model's catalog holds it: two of the six
\* categories of the real file, with the counts the last writer left there.
InitialLicenses ==
    << [name |-> "by-nc-sa", bc_id |-> 3, count |-> 7],
       [name |-> "by-nd",    bc_id |-> 5, count |-> 7] >>

\* A license id found in records although no category of licenses.json has it.
UnknownBcId == 1

LICENSE_NAME_TO_SLUG ==
    [n \in {"attribution_non_commercial_share_alike", "attribution_no_derivatives"} |->
        IF n = "attribution_non_commercial_share_alike" THEN "by-nc-sa" ELSE "by-nd"]

\* validLicenses, validBcIds, slugToBcId of main().
validLicensesOf(licenses) ==
    SelectSeq(licenses, LAMBDA l : l.bc_id # Null /\ l.name # "none")

validBcIdsOf(licenses) ==
    {validLicensesOf(licenses)[i].bc_id : i \in DOMAIN validLicensesOf(licenses)}

\* new Map(validLicenses.map(l => [l.name, l.bc_id])): the last entry of a name wins.
slugToBcIdOf(licenses) ==
    LET v == validLicensesOf(licenses)
        names == {v[i].name : i \in DOMAIN v}
        last(n) == CHOOSE i \in DOMAIN v :
                      /\ v[i].name = n
                      /\ \A j \in DOMAIN v : v[j].name = n => j <= i
    IN  [n \in names |-> v[last(n)].bc_id]

\* The text of a fetched page, by the markers the three scans find in it; NoText
\* is the empty body.
NoText == [text |-> FALSE, typeMarkers |-> {}, sectionSlugs |-> {}, nameMarkers |-> {}]

PageOf(t, s, n) == [text |-> TRUE, typeMarkers |-> t, sectionSlugs |-> s, nameMarkers |-> n]

extractLicenseTypeIds(page, validBcIds) == page.typeMarkers \cap validBcIds

extractLicenseSectionIds(page, slugToBcId) ==
    {slugToBcId[s] : s \in page.sectionSlugs \cap DOMAIN slugToBcId}

extractLicenseNameIds(page, slugToBcId) ==
    {slugToBcId[LICENSE_NAME_TO_SLUG[n]] :
        n \in {m \in page.nameMarkers \cap DOMAIN LICENSE_NAME_TO_SLUG :
                  LICENSE_NAME_TO_SLUG[m] \in DOMAIN slugToBcId}}

\* The three scans followed by decideMappedId, as inspectRow runs them on a text.
DecisionOn(page, validBcIds, slugToBcId) ==
    decideMappedId(extractLicenseTypeIds(page, validBcIds),
                   extractLicenseSectionIds(page, slugToBcId),
                   extractLicenseNameIds(page, slugToBcId))

normalizedStatus(rawStatus) ==
    IF rawStatus \in {"active", "dead", "unverified"} THEN rawStatus ELSE "active"

isVisibleActiveRow(row, validBcIds) ==
    normalizedStatus(row.status) = "active" /\ row.license \in validBcIds

\* ------------------------------------------------------------------------
\* Domain Consensus Builder
\* ------------------------------------------------------------------------

\* The rows buildDomainConsensus puts into one host's bucket, in file order.
BucketRows(urls, host) ==
    SelectSeq(urls, LAMBDA row : row.license # Null /\ hostnameOf(row.url) = host)

\* The keys of a bucket's Map in insertion order: each license at its first row.
RECURSIVE KeyOrder(_)
KeyOrder(rows) ==
    IF rows = << >> THEN << >>
    ELSE LET rest == KeyOrder(SubSeq(rows, 1, Len(rows) - 1))
             lic == rows[Len(rows)].license
         IN  IF \E i \in DOMAIN rest : rest[i] = lic THEN rest ELSE Append(rest, lic)

CountIn(rows, lic) == Cardinality({i \in DOMAIN rows : rows[i].license = lic})

\* A plausible slip: the scan never replaces the first key it met.
TopOfFirstKey(keys, rows) ==
    IF keys = << >> THEN [topBcId |-> Null, topCount |-> 0]
    ELSE [topBcId |-> keys[1], topCount |-> CountIn(rows, keys[1])]

\* The scan for the top license: a later key replaces the top only when its
\* count is strictly greater.
RECURSIVE TopOf(_, _)
TopOf(keys, rows) ==
    IF keys = << >> THEN [topBcId |-> Null, topCount |-> 0]
    ELSE LET before == TopOf(SubSeq(keys, 1, Len(keys) - 1), rows)
             lic == keys[Len(keys)]
         IN  IF CountIn(rows, lic) > before.topCount
             THEN [topBcId |-> lic, topCount |-> CountIn(rows, lic)]
             ELSE before

\* The summary Map: one entry per host that has a row with a license.  purity
\* is topCount / total; the model keeps the two integers and compares the
\* ratio exactly (see PurityAtLeast).
buildDomainConsensus(urls) ==
    LET hosts == {hostnameOf(urls[i].url) : i \in {j \in DOMAIN urls : urls[j].license # Null}}
    IN  [h \in hosts |->
            LET rows == BucketRows(urls, h)
                top == TopOf(KeyOrder(rows), rows)
            IN  [total |-> Len(rows), topBcId |-> top.topBcId, topCount |-> top.topCount]]

\* consensus.purity >= options.domainMinPurity, with the minimum purity given
\* in percent: topCount / total >= pct / 100.
PurityAtLeast(consensus, pct) == consensus.topCount * 100 >= pct * consensus.total

\* A plausible slip: the sample threshold taken as exclusive.
consensusAcceptedAbove(consensus, options) ==
    /\ consensus.total > options.domainMinKnown
    /\ PurityAtLeast(consensus, options.domainMinPurity)
    /\ consensus.topBcId # Null

\* The gate of the domain-consensus fallback on a host's entry.
consensusAccepted(consensus, options) ==
    /\ consensus.total >= options.domainMinKnown
    /\ PurityAtLeast(consensus, options.domainMinPurity)
    /\ consensus.topBcId # Null

\* ------------------------------------------------------------------------
\* Fetch results and the archive and alias lookups
\* ------------------------------------------------------------------------

\* What fetchWithRetries returns: the last attempt's fetchText result.
Fetched(status, page) == [ok |-> TRUE, status |-> status, page |-> page, error |-> "none"]

FetchFailed(message) == [ok |-> FALSE, status |-> Null, page |-> NoText, error |-> message]

\* An answer of one of the two Wayback lookups (availability API, CDX query):
\* the fetch result and the snapshot URL its JSON body yields ("none": no
\* usable snapshot in the body, or a body that does not parse).
Lookup(ok, status, snapshot) == [ok |-> ok, status |-> status, snapshot |-> snapshot]

findWaybackSnapshotUrl(fromAvailable, cdx) ==
    IF fromAvailable.ok /\ fromAvailable.status = 200 /\ fromAvailable.snapshot # "none"
    THEN fromAvailable.snapshot
    ELSE IF ~cdx.ok \/ cdx.status # 200 THEN "none"
    ELSE cdx.snapshot

\* /-\d+$/.test(slug) for the slugs of the model.
EndsWithNumber(slug) == slug \in {"ep-2"}

\* The answer to one search query: the fetch result and the distinct album
\* links extractBandcampAlbumLinks finds in the text.
Searched(ok, text, links) == [ok |-> ok, text |-> text, links |-> links]

\* The loop over the queries of findBandcampAliasAlbumUrl from query q on, with
\* the candidates collected so far; its value is the candidate set the loop
\* ends with (a return inside the loop leaves more than one candidate).
RECURSIVE AliasCandidates(_, _, _, _, _)
AliasCandidates(slug, searches, q, queryCount, candidates) ==
    IF q > queryCount THEN candidates
    ELSE LET searched == searches[q]
         IN  IF ~searched.ok \/ ~searched.text
             THEN AliasCandidates(slug, searches, q + 1, queryCount, candidates)
             ELSE LET found == candidates \cup
                               {l \in searched.links : slugOfAlbumUrl(l) = slug}
                  IN  IF Cardinality(found) > 1 THEN found
                      ELSE IF Cardinality(found) = 1 THEN found
                      ELSE AliasCandidates(slug, searches, q + 1, queryCount, found)

\* A plausible slip: of several matching links one is taken.
findBandcampAliasAlbumUrlAny(originalUrl, searches) ==
    LET slug == slugOfAlbumUrl(originalUrl)
        queryCount == IF EndsWithNumber(slug) THEN 3 ELSE 2
        candidates == AliasCandidates(slug, searches, 1, queryCount, {})
        others == candidates \ {originalUrl}
    IN  IF others = {} THEN NoUrl ELSE CHOOSE l \in others : TRUE

\* A plausible slip: the one candidate returned even when it is the record's
\* own URL.
findBandcampAliasAlbumUrlSelf(originalUrl, searches) ==
    LET host == hostnameOf(originalUrl)
        slug == slugOfAlbumUrl(originalUrl)
    IN  IF host = "none" \/ slug = "none" THEN NoUrl
        ELSE LET queryCount == IF EndsWithNumber(slug) THEN 3 ELSE 2
                 candidates == AliasCandidates(slug, searches, 1, queryCount, {})
             IN  IF Cardinality(candidates) # 1 THEN NoUrl
                 ELSE TheOnly(candidates)

findBandcampAliasAlbumUrl(originalUrl, searches) ==
    LET host == hostnameOf(originalUrl)
        slug == slugOfAlbumUrl(originalUrl)
    IN  IF host = "none" \/ slug = "none" THEN NoUrl
        ELSE LET queryCount == IF EndsWithNumber(slug) THEN 3 ELSE 2
                 candidates == AliasCandidates(slug, searches, 1, queryCount, {})
             IN  IF Cardinality(candidates) # 1 THEN NoUrl
                 ELSE IF TheOnly(candidates) = originalUrl THEN NoUrl
                 ELSE TheOnly(candidates)

\* ------------------------------------------------------------------------
\* Fallback Chain Resolver: inspectRow
\* ------------------------------------------------------------------------

NoMapped == [bc_id |-> Null, source |-> "none"]

\* `wayback_${source}` and `search_alias_${source}`.
WaybackSource(source) ==
    CASE source = "license_type"    -> "wayback_license_type"
      [] source = "combined_single" -> "wayback_combined_single"
      [] source = "license_section" -> "wayback_license_section"
      [] source = "license_name"    -> "wayback_license_name"

SearchAliasSource(source) ==
    CASE source = "license_type"    -> "search_alias_license_type"
      [] source = "combined_single" -> "search_alias_combined_single"
      [] source = "license_section" -> "search_alias_license_section"
      [] source = "license_name"    -> "search_alias_license_name"

\* A plausible slip: the reason made from a fixed status.
UnresolvedStatusReasonFixed(status) == "unresolved_status_200"

\* A plausible slip: a failed fetch left without a reason.
FetchErrorReasonNone(error) == "none"

\* `unresolved_status_${live.status}` and `fetch_error:${live.error ?? "unknown"}`.
UnresolvedStatusReason(status) ==
    CASE status = 200 -> "unresolved_status_200"
      [] status = 404 -> "unresolved_status_404"
      [] status = 503 -> "unresolved_status_503"

FetchErrorReason(error) ==
    CASE error = "fetch failed" -> "fetch_error:fetch failed"
      [] error = "This operation was aborted" -> "fetch_error:This operation was aborted"
      [] OTHER -> "fetch_error:unknown"

Outcome(row, live, archive_url, alias_url, mapped, reason) ==
    [url_id |-> row.url_id, url |-> row.url, status |-> live.status,
     archive_url |-> archive_url, alias_url |-> alias_url,
     mapped |-> mapped, reason |-> reason]

\* A plausible slip: the consensus table consulted before the alias search.
inspectRowConsensusFirst(row, options, validBcIds, slugToBcId, domainConsensus, env) ==
    LET live == env.live
        liveMapped == IF live.ok /\ live.page.text
                      THEN DecisionOn(live.page, validBcIds, slugToBcId)
                      ELSE NoDecision
        snapshotUrl == IF options.useArchive /\ live.status = 404
                       THEN findWaybackSnapshotUrl(env.fromAvailable, env.cdx)
                       ELSE "none"
        archivedMapped == IF snapshotUrl # "none" /\ env.archived.ok /\ env.archived.page.text
                          THEN DecisionOn(env.archived.page, validBcIds, slugToBcId)
                          ELSE NoDecision
        aliasUrl == IF options.useSearchAlias /\ live.status = 404
                    THEN findBandcampAliasAlbumUrl(row.url, env.searches)
                    ELSE NoUrl
        aliasMapped == IF aliasUrl # NoUrl /\ env.alias.ok /\ env.alias.page.text
                       THEN DecisionOn(env.alias.page, validBcIds, slugToBcId)
                       ELSE NoDecision
        host == hostnameOf(row.url)
        hasConsensus == host # "none" /\ host \in DOMAIN domainConsensus
    IN  IF liveMapped # NoDecision
        THEN Outcome(row, live, "none", NoUrl,
                     [bc_id |-> liveMapped.bcId, source |-> liveMapped.source], "none")
        ELSE IF archivedMapped # NoDecision
        THEN Outcome(row, live, snapshotUrl, NoUrl,
                     [bc_id |-> archivedMapped.bcId,
                      source |-> WaybackSource(archivedMapped.source)], "none")
        ELSE IF /\ options.useDomainConsensus
                /\ hasConsensus
                /\ consensusAccepted(domainConsensus[host], options)
        THEN Outcome(row, live, "none", NoUrl,
                     [bc_id |-> domainConsensus[host].topBcId,
                      source |-> "domain_consensus"], "none")
        ELSE IF aliasMapped # NoDecision
        THEN Outcome(row, live, "none", aliasUrl,
                     [bc_id |-> aliasMapped.bcId,
                      source |-> SearchAliasSource(aliasMapped.source)], "none")
        ELSE Outcome(row, live, "none", NoUrl, NoMapped,
                     IF live.ok /\ live.status # Null
                     THEN UnresolvedStatusReason(live.status)
                     ELSE FetchErrorReason(live.error))

\* env is what the network answers while this record is inspected: the live
\* fetch, the two Wayback lookups and the snapshot fetch, the search answers
\* and the fetch of the alias page.
inspectRow(row, options, validBcIds, slugToBcId, domainConsensus, env) ==
    LET live == env.live
        liveMapped == IF live.ok /\ live.page.text
                      THEN DecisionOn(live.page, validBcIds, slugToBcId)
                      ELSE NoDecision
        snapshotUrl == IF options.useArchive /\ live.status = 404
                       THEN findWaybackSnapshotUrl(env.fromAvailable, env.cdx)
                       ELSE "none"
        archivedMapped == IF snapshotUrl # "none" /\ env.archived.ok /\ env.archived.page.text
                          THEN DecisionOn(env.archived.page, validBcIds, slugToBcId)
                          ELSE NoDecision
        aliasUrl == IF options.useSearchAlias /\ live.status = 404
                    THEN findBandcampAliasAlbumUrl(row.url, env.searches)
                    ELSE NoUrl
        aliasMapped == IF aliasUrl # NoUrl /\ env.alias.ok /\ env.alias.page.text
                       THEN DecisionOn(env.alias.page, validBcIds, slugToBcId)
                       ELSE NoDecision
        host == hostnameOf(row.url)
        hasConsensus == host # "none" /\ host \in DOMAIN domainConsensus
    IN  IF liveMapped # NoDecision
        THEN Outcome(row, live, "none", NoUrl,
                     [bc_id |-> liveMapped.bcId, source |-> liveMapped.source], "none")
        ELSE IF archivedMapped # NoDecision
        THEN Outcome(row, live, snapshotUrl, NoUrl,
                     [bc_id |-> archivedMapped.bcId,
                      source |-> WaybackSource(archivedMapped.source)], "none")
        ELSE IF aliasMapped # NoDecision
        THEN Outcome(row, live, "none", aliasUrl,
                     [bc_id |-> aliasMapped.bcId,
                      source |-> SearchAliasSource(aliasMapped.source)], "none")
        ELSE IF /\ options.useDomainConsensus
                /\ hasConsensus
                /\ consensusAccepted(domainConsensus[host], options)
        THEN Outcome(row, live, "none", NoUrl,
                     [bc_id |-> domainConsensus[host].topBcId,
                      source |-> "domain_consensus"], "none")
        ELSE Outcome(row, live, "none", NoUrl, NoMapped,
                     IF live.ok /\ live.status # Null
                     THEN UnresolvedStatusReason(live.status)
                     ELSE FetchErrorReason(live.error))

\* A plausible slip: the alias search skipped once the archive was asked.
inspectRowStepsAliasOrArchive(row, options, validBcIds, slugToBcId, domainConsensus, env) ==
    LET live == env.live
        liveDecided == live.ok /\ live.page.text
                       /\ DecisionOn(live.page, validBcIds, slugToBcId) # NoDecision
        archive == options.useArchive /\ live.status = 404
        alias == options.useSearchAlias /\ live.status = 404 /\ ~archive
    IN  <<"live">>
        \o (IF ~liveDecided /\ archive THEN <<"archive">> ELSE << >>)
        \o (IF ~liveDecided /\ alias THEN <<"alias">> ELSE << >>)
        \o (IF ~liveDecided /\ options.useDomainConsensus THEN <<"consensus">> ELSE << >>)

\* The strategies inspectRow consults for one record, in the order it
\* consults them: the live fetch, findWaybackSnapshotUrl, findBandcampAliasAlbumUrl
\* and the lookup in the consensus table; every return ends the list.
inspectRowSteps(row, options, validBcIds, slugToBcId, domainConsensus, env) ==
    LET live == env.live
        liveDecided == live.ok /\ live.page.text
                       /\ DecisionOn(live.page, validBcIds, slugToBcId) # NoDecision
        archive == options.useArchive /\ live.status = 404
        snapshotUrl == IF archive THEN findWaybackSnapshotUrl(env.fromAvailable, env.cdx)
                       ELSE "none"
        archiveDecided == /\ snapshotUrl # "none"
                          /\ env.archived.ok /\ env.archived.page.text
                          /\ DecisionOn(env.archived.page, validBcIds, slugToBcId) # NoDecision
        alias == options.useSearchAlias /\ live.status = 404
        aliasUrl == IF alias THEN findBandcampAliasAlbumUrl(row.url, env.searches) ELSE NoUrl
        aliasDecided == /\ aliasUrl # NoUrl
                        /\ env.alias.ok /\ env.alias.page.text
                        /\ DecisionOn(env.alias.page, validBcIds, slugToBcId) # NoDecision
    IN  IF liveDecided THEN <<"live">>
        ELSE IF archive /\ archiveDecided THEN <<"live", "archive">>
        ELSE IF alias /\ aliasDecided
        THEN <<"live">> \o (IF archive THEN <<"archive">> ELSE << >>) \o <<"alias">>
        ELSE <<"live">>
             \o (IF archive THEN <<"archive">> ELSE << >>)
             \o (IF alias THEN <<"alias">> ELSE << >>)
             \o (IF options.useDomainConsensus THEN <<"consensus">> ELSE << >>)

\* ------------------------------------------------------------------------
\* Dataset Merger (accelerated fixer) and the replay rule (report reconciler)
\* ------------------------------------------------------------------------

PageSources == {"license_type", "combined_single", "license_section", "license_name"}

\* source.startsWith("search_alias_") and source.startsWith("wayback_").
StartsWithSearchAlias(source) == source \in {SearchAliasSource(p) : p \in PageSources}

StartsWithWayback(source) == source \in {WaybackSource(p) : p \in PageSources}

\* resultById.get(url_id): of several results with one url_id the Map keeps the last.
HasResult(results, url_id) == \E i \in DOMAIN results : results[i].url_id = url_id

\* A plausible slip: the result taken by its place among the results, not by
\* the id of its record.
ResultByIdFirst(results, url_id) == results[1]

\* resultsById.get(row.url_id): of the results with the id, the one set last.
ResultById(results, url_id) ==
    results[CHOOSE i \in DOMAIN results :
               /\ results[i].url_id = url_id
               /\ \A j \in DOMAIN results : results[j].url_id = url_id => j <= i]

\* A plausible slip: the branch chosen by the license the row had before the
\* merge instead of by the result.
mergeRowByRowLicense(row, match, runTimestamp) ==
    LET licensed == [row EXCEPT !.health_checked_at = runTimestamp,
                                !.license = IF match.mapped.bc_id # Null
                                            THEN match.mapped.bc_id ELSE @]
    IN  IF row.license # Null
        THEN [licensed EXCEPT !.status = "active", !.health_reason = match.mapped.source]
        ELSE [licensed EXCEPT !.status = "unverified",
                              !.health_reason = IF match.reason = "none"
                                                THEN "unresolved" ELSE match.reason]

\* A plausible slip: a mapped record always kept active.
mergeRowMappedActive(row, match, runTimestamp) ==
    LET licensed == [row EXCEPT !.health_checked_at = runTimestamp,
                                !.license = IF match.mapped.bc_id # Null
                                            THEN match.mapped.bc_id ELSE @]
    IN  IF match.mapped # NoMapped
        THEN [licensed EXCEPT !.status = "active", !.health_reason = match.mapped.source,
                              !.url = IF match.alias_url # NoUrl THEN match.alias_url ELSE @]
        ELSE IF match.reason = "unresolved_status_404"
        THEN [licensed EXCEPT !.status = "dead", !.health_reason = "http_404"]
        ELSE [licensed EXCEPT !.status = "unverified",
                              !.health_reason = IF match.reason = "none"
                                                THEN "unresolved" ELSE match.reason]

\* A plausible slip: an unresolved record never marked dead.
mergeRowUnresolvedUnverified(row, match, runTimestamp) ==
    LET licensed == [row EXCEPT !.health_checked_at = runTimestamp,
                                !.license = IF match.mapped.bc_id # Null
                                            THEN match.mapped.bc_id ELSE @]
    IN  IF match.mapped # NoMapped
        THEN LET mappedViaAlias == StartsWithSearchAlias(match.mapped.source)
                 moved == IF mappedViaAlias /\ match.alias_url # NoUrl
                          THEN [licensed EXCEPT !.url = match.alias_url]
                          ELSE licensed
             IN  IF (match.status = 404 /\ ~mappedViaAlias)
                       \/ StartsWithWayback(match.mapped.source)
                 THEN [moved EXCEPT !.status = "dead", !.health_reason = "http_404"]
                 ELSE [moved EXCEPT !.status = "active",
                                    !.health_reason = match.mapped.source]
        ELSE [licensed EXCEPT !.status = "unverified",
                              !.health_reason = IF match.reason = "none"
                                                THEN "unresolved" ELSE match.reason]

\* A plausible slip: a mapped record marked active only when its live page
\* answered, and dead whenever it did not answer with 200.
mergeRowByLiveStatus(row, match, runTimestamp) ==
    LET licensed == [row EXCEPT !.health_checked_at = runTimestamp,
                                !.license = IF match.mapped.bc_id # Null
                                            THEN match.mapped.bc_id ELSE @]
    IN  IF match.mapped # NoMapped
        THEN LET mappedViaAlias == StartsWithSearchAlias(match.mapped.source)
                 moved == IF mappedViaAlias /\ match.alias_url # NoUrl
                          THEN [licensed EXCEPT !.url = match.alias_url]
                          ELSE licensed
             IN  IF (match.status # 200 /\ ~mappedViaAlias)
                       \/ StartsWithWayback(match.mapped.source)
                 THEN [moved EXCEPT !.status = "dead", !.health_reason = "http_404"]
                 ELSE [moved EXCEPT !.status = "active",
                                    !.health_reason = match.mapped.source]
        ELSE IF match.reason = "unresolved_status_404"
        THEN [licensed EXCEPT !.status = "dead", !.health_reason = "http_404"]
        ELSE [licensed EXCEPT !.status = "unverified",
                              !.health_reason = IF match.reason = "none"
                                                THEN "unresolved" ELSE match.reason]

\* The body of the merge loop for one row that has a result.
mergeRow(row, match, runTimestamp) ==
    LET licensed == [row EXCEPT !.health_checked_at = runTimestamp,
                                !.license = IF match.mapped.bc_id # Null
                                            THEN match.mapped.bc_id ELSE @]
    IN  IF match.mapped # NoMapped
        THEN LET source == IF match.mapped.source = "" THEN "mapped_unknown"
                           ELSE match.mapped.source
                 mappedViaAlias == StartsWithSearchAlias(source)
                 confirmedDead == match.status = 404 /\ ~mappedViaAlias
                 moved == IF mappedViaAlias /\ match.alias_url # NoUrl
                          THEN [licensed EXCEPT !.url = match.alias_url]
                          ELSE licensed
             IN  IF confirmedDead \/ StartsWithWayback(source)
                 THEN [moved EXCEPT !.status = "dead", !.health_reason = "http_404"]
                 ELSE [moved EXCEPT !.status = "active", !.health_reason = source]
        ELSE IF match.reason = "unresolved_status_404"
        THEN [licensed EXCEPT !.status = "dead", !.health_reason = "http_404"]
        ELSE [licensed EXCEPT !.status = "unverified",
                              !.health_reason = IF match.reason = "none"
                                                THEN "unresolved" ELSE match.reason]

\* A plausible slip: the check time stamped on every row, processed or not.
mergeResultsStampingAll(urls, results, runTimestamp) ==
    [i \in DOMAIN urls |->
        IF HasResult(results, urls[i].url_id)
        THEN mergeRow(urls[i], ResultById(results, urls[i].url_id), runTimestamp)
        ELSE [urls[i] EXCEPT !.health_checked_at = runTimestamp]]

\* The merge loop of main(): every row with a result is merged, in file order.
mergeResults(urls, results, runTimestamp) ==
    [i \in DOMAIN urls |->
        IF HasResult(results, urls[i].url_id)
        THEN mergeRow(urls[i], ResultById(results, urls[i].url_id), runTimestamp)
        ELSE urls[i]]

\* A plausible slip: the count taken over every row with the license, whatever
\* its status.
countLicensed(urls, validBcIds, bc_id) ==
    Cardinality({i \in DOMAIN urls : urls[i].license \in validBcIds /\ urls[i].license = bc_id})

\* countsByBcId and cleanedLicenses of main().
countVisible(urls, validBcIds, bc_id) ==
    Cardinality({i \in DOMAIN urls :
                    isVisibleActiveRow(urls[i], validBcIds) /\ urls[i].license = bc_id})

cleanLicenses(licenses, urls) ==
    LET v == validLicensesOf(licenses)
    IN  [i \in DOMAIN v |->
            [name |-> v[i].name, bc_id |-> v[i].bc_id,
             count |-> countVisible(urls, validBcIdsOf(licenses), v[i].bc_id)]]

\* ------------------------------------------------------------------------
\* The verifier (verify-visible-dataset)
\* ------------------------------------------------------------------------

\* The rows with active status whose license is no known category id.
invalidActiveRows(urls, licenses) ==
    {j \in DOMAIN urls : /\ normalizedStatus(urls[j].status) = "active"
                         /\ urls[j].license \notin validBcIdsOf(licenses)}

\* The categories whose count is not the number of visible rows referencing them.
licenseCountMismatches(urls, licenses) ==
    {i \in DOMAIN licenses :
        licenses[i].count # Cardinality({j \in DOMAIN urls :
                                           /\ isVisibleActiveRow(urls[j], validBcIdsOf(licenses))
                                           /\ urls[j].license = licenses[i].bc_id})}

\* tagCounts.get(tag_id) || 0: how often the visible rows carry the tag.
tagCounts(urls, validBcIds, tag_id) ==
    Cardinality({jk \in UNION {{<<j, k>> : k \in DOMAIN urls[j].tags} : j \in DOMAIN urls} :
                    /\ isVisibleActiveRow(urls[jk[1]], validBcIds)
                    /\ urls[jk[1]].tags[jk[2]] = tag_id})

\* The tags whose count is not the number of visible rows carrying them.
tagCountMismatches(urls, tags, licenses) ==
    {i \in DOMAIN tags :
        tags[i].count # tagCounts(urls, validBcIdsOf(licenses), tags[i].tag_id)}

\* public/tags.json as the sync leaves it for a dataset: the two tags the
\* records carry, counted over the visible rows.
InitialTags(rows) ==
    [t \in 1..2 |->
        [tag_id |-> t, name |-> IF t = 1 THEN "ambient" ELSE "folk",
         count |-> tagCounts(rows, validBcIdsOf(InitialLicenses), t)]]

\* The body of the reconciler's replay loop for one result of one report.
replayRow(row, result, generated_at) ==
    LET licensed == [row EXCEPT !.health_checked_at = generated_at,
                                !.license = IF /\ result.mapped.bc_id # Null
                                               /\ @ # result.mapped.bc_id
                                            THEN result.mapped.bc_id ELSE @]
    IN  IF result.mapped # NoMapped
        THEN LET source == IF result.mapped.source = "" THEN "mapped_unknown"
                           ELSE result.mapped.source
                 mappedViaAlias == StartsWithSearchAlias(source)
                 confirmedDead == result.status = 404 /\ ~mappedViaAlias
                 moved == IF /\ mappedViaAlias
                             /\ result.alias_url # NoUrl
                             /\ licensed.url # result.alias_url
                          THEN [licensed EXCEPT !.url = result.alias_url]
                          ELSE licensed
             IN  IF confirmedDead \/ StartsWithWayback(source)
                 THEN [moved EXCEPT !.status = "dead", !.health_reason = "http_404"]
                 ELSE [moved EXCEPT !.status = "active", !.health_reason = source]
        ELSE IF result.reason = "unresolved_status_404"
        THEN [licensed EXCEPT !.status = "dead", !.health_reason = "http_404"]
        ELSE [licensed EXCEPT !.status = "unverified",
                              !.health_reason = IF result.reason = "none"
                                                THEN "unresolved" ELSE result.reason]

\* rowsById.get(result.url_id): of several rows with one url_id the Map keeps the last.
RowIndexById(rows, url_id) ==
    CHOOSE i \in DOMAIN rows :
        /\ rows[i].url_id = url_id
        /\ \A j \in DOMAIN rows : rows[j].url_id = url_id => j <= i

\* One report replayed: its results applied in order, each to the row of its id.
RECURSIVE replayResults(_, _, _)
replayResults(rows, results, generated_at) ==
    IF results = << >> THEN rows
    ELSE LET before == replayResults(rows, SubSeq(results, 1, Len(results) - 1), generated_at)
             result == results[Len(results)]
         IN  IF \E i \in DOMAIN before : before[i].url_id = result.url_id
             THEN [before EXCEPT ![RowIndexById(before, result.url_id)] =
                      replayRow(@, result, generated_at)]
             ELSE before

\* reports.sort((a, b) => a.generated_at.localeCompare(b.generated_at)): a stable
\* sort, here by insertion.
\* A plausible slip: each report put in front of the ones already taken.
insertReportInFront(sorted, report) == <<report>> \o sorted

RECURSIVE insertReport(_, _)
insertReport(sorted, report) ==
    IF sorted = << >> THEN <<report>>
    ELSE IF sorted[Len(sorted)].generated_at <= report.generated_at
    THEN Append(sorted, report)
    ELSE Append(insertReport(SubSeq(sorted, 1, Len(sorted) - 1), report), sorted[Len(sorted)])

\* A plausible slip: the reports left in the order they were listed in.
sortReportsUnsorted(listing) == listing

RECURSIVE sortReports(_)
sortReports(listing) ==
    IF listing = << >> THEN << >>
    ELSE insertReport(sortReports(SubSeq(listing, 1, Len(listing) - 1)), listing[Len(listing)])

\* The replay of all reports, oldest first.
RECURSIVE replayReports(_, _)
replayReports(rows, sorted) ==
    IF sorted = << >> THEN rows
    ELSE LET last == sorted[Len(sorted)]
         IN  replayResults(replayReports(rows, SubSeq(sorted, 1, Len(sorted) - 1)),
                           last.results, last.generated_at)

\* ------------------------------------------------------------------------
\* The exact fixer (fix-missing-licenses-exact) as the orchestrator runs it
\* ------------------------------------------------------------------------

\* What the last attempt of inspectListing ends with for one listing: the
\* fetch threw, or the page has a status, a number of detected license URLs
\* and the category ids of those that are legitimate targets.
ExactFetchFailed == [failed |-> TRUE, status |-> Null, detected |-> 0, matched |-> {}]

ExactPage(status, detected, matched) ==
    [failed |-> FALSE, status |-> status, detected |-> detected, matched |-> matched]

ExactAnswers ==
    { ExactPage(200, 1, {3}), ExactPage(200, 0, {}), ExactPage(200, 2, {3, 5}),
      ExactPage(429, 0, {}), ExactFetchFailed }

\* `http_status_${page.status}`.
HttpStatusReason(status) ==
    CASE status = 404 -> "http_status_404"
      [] status = 429 -> "http_status_429"
      [] OTHER -> "http_status_other"

\* The result inspectListing returns; bc_id is mapped.bc_id, Null for mapped: null.
inspectListing(listing, answer) ==
    IF answer.failed
    THEN [url_id |-> listing.url_id, status |-> Null, bc_id |-> Null, reason |-> "fetch_error"]
    ELSE IF Cardinality(answer.matched) = 1
    THEN [url_id |-> listing.url_id, status |-> answer.status,
          bc_id |-> TheOnly(answer.matched), reason |-> "none"]
    ELSE [url_id |-> listing.url_id, status |-> answer.status, bc_id |-> Null,
          reason |-> IF answer.detected = 0 /\ answer.status >= 400
                     THEN HttpStatusReason(answer.status)
                     ELSE IF answer.matched = {} THEN "no_exact_legitimate_match"
                     ELSE "ambiguous_exact_matches"]

\* A plausible slip: the merged rows never take the licenses found.
exactMergeKeeping(urls, results) == urls

\* The merge loop of the exact fixer's main(): only the license is set.
exactMerge(urls, results) ==
    [j \in DOMAIN urls |->
        IF /\ \E i \in DOMAIN results : results[i].url_id = urls[j].url_id
           /\ LET last == CHOOSE i \in DOMAIN results :
                            /\ results[i].url_id = urls[j].url_id
                            /\ \A k \in DOMAIN results :
                                  results[k].url_id = urls[j].url_id => k <= i
              IN  results[last].bc_id # Null
        THEN [urls[j] EXCEPT !.license =
                 results[CHOOSE i \in DOMAIN results :
                            /\ results[i].url_id = urls[j].url_id
                            /\ \A k \in DOMAIN results :
                                  results[k].url_id = urls[j].url_id => k <= i].bc_id]
        ELSE urls[j]]

\* countsByBcId and cleanedLicenses of the exact fixer: every row with an
\* integer license counts, whatever its status.
exactCleanLicenses(licenses, urls) ==
    LET v == validLicensesOf(licenses)
    IN  [i \in DOMAIN v |->
            [name |-> v[i].name, bc_id |-> v[i].bc_id,
             count |-> Cardinality({j \in DOMAIN urls : urls[j].license = v[i].bc_id})]]

\* urls.filter((u) => u.license == null).length.
MissingCountOf(rows) == Cardinality({i \in DOMAIN rows : rows[i].license = Null})

\* The payload of the exact fixer's report, by what the orchestrator reads of it.
exactPayload(missingRows, merged, results) ==
    [mapped |-> Cardinality({i \in DOMAIN results : results[i].bc_id # Null}),
     unresolved |-> Cardinality({i \in DOMAIN results : results[i].bc_id = Null}),
     missing_before |-> Len(missingRows),
     missing_after |-> MissingCountOf(merged)]

\* ------------------------------------------------------------------------
\* The orchestrator (fix-missing-licenses-exhaustive)
\* ------------------------------------------------------------------------

\* A plausible slip: the sort by modification time turned round.
latestFixReportPathOldest(files) == files[1]

\* The report with the latest modification time among the exact fixer's
\* reports (files: the reports in the order of their modification times).
latestFixReportPath(files) == files[Len(files)]

\* A plausible slip: the counter kept, not reset, by a pass that mapped.
noProgressAfterKept(consecutiveNoProgress, mapped) ==
    IF mapped = 0 THEN consecutiveNoProgress + 1 ELSE consecutiveNoProgress

\* consecutiveNoProgress after a pass whose report says mapped.
noProgressAfter(consecutiveNoProgress, mapped) ==
    IF mapped = 0 THEN consecutiveNoProgress + 1 ELSE 0

\* A plausible slip: the pass cap compared with the pass before it is counted.
loopEndsPassNotCounted(o, missingAfter) ==
    \/ missingAfter = 0
    \/ o.stopAfterNoProgressPasses > 0
       /\ o.consecutiveNoProgress >= o.stopAfterNoProgressPasses
    \/ o.maxPasses > 0 /\ o.pass - 1 >= o.maxPasses

\* A plausible slip: the break on the no-progress counter left out.
loopEndsWithoutStall(o, missingAfter) ==
    \/ missingAfter = 0
    \/ o.maxPasses > 0 /\ o.pass >= o.maxPasses

\* The three breaks of the loop, after the counter was updated.
loopEnds(o, missingAfter) ==
    \/ missingAfter = 0
    \/ o.stopAfterNoProgressPasses > 0
       /\ o.consecutiveNoProgress >= o.stopAfterNoProgressPasses
    \/ o.maxPasses > 0 /\ o.pass >= o.maxPasses

\* A plausible slip: every exit of the pass process taken for a success.
passSucceededAlways(code) == code \in {"0", "1", "null"}

\* child.on("exit", (code) => ...): code === 0; a process killed by a signal
\* has code null.
passSucceeded(code) == code = "0"

\* A plausible slip: the pass process started and not awaited.
runFixPassDetached(o) == [o EXCEPT !.pc = "sleeping"]

\* runFixPass after the spawn: main() awaits the exit of the pass process.
runFixPassAwaited(o) == [o EXCEPT !.pc = "awaitPass"]

\* ------------------------------------------------------------------------
\* Bounded Worker Pool: mapWithConcurrency and the progress callback of main()
\* (the exact fixer's mapWithConcurrency has the same text)
\* ------------------------------------------------------------------------

\* A plausible slip: the index read again after the await, when another
\* worker may have taken it.
takeIndexStale(nextIndex, total) == IF nextIndex > total THEN 0 ELSE nextIndex - 1

\* const index = nextIndex; nextIndex++; if (index >= items.length) return;
\* the index the worker goes on with (from 1; 0: the worker returns).
takeIndex(nextIndex, total) == IF nextIndex > total THEN 0 ELSE nextIndex

\* A plausible slip: only the mapped records counted.
onProgressMappedOnly(progress, result) ==
    IF result.mapped # NoMapped
    THEN [progress EXCEPT !.mapped = @ + 1]
    ELSE progress

\* The progress callback main() passes to the pool: its two counters.
onProgress(progress, result) ==
    IF result.mapped # NoMapped
    THEN [progress EXCEPT !.mapped = @ + 1]
    ELSE [progress EXCEPT !.unresolved = @ + 1]

\* ------------------------------------------------------------------------
\* State
\* ------------------------------------------------------------------------

VARIABLES
    \* the reconciler's own check: the three candidate sets and the decision
    typeIds, sectionIds, nameIds, decision, decided,
    \* the files: public/urls.json, src/data/licenses.json, and the accelerated
    \* fixer's reports under reports/ (in the order they were written)
    diskUrls, diskLicenses, reports,
    \* public/tags.json, which the verifier reads beside the two
    diskTags,
    \* the wall clock (the source of runTimestamp and generated_at) and the
    \* dataset the history started from
    clock, initialUrls,
    \* one run of the accelerated fixer: where main() is, and its locals
    phase, options, runTimestamp, urls, licenses, domainConsensus, missingRows,
    \* mapWithConcurrency: the shared cursor, the count of completed records,
    \* the results, and for every worker the index it awaits (0: it returned)
    nextIndex, completed, output, worker,
    \* the progress counters of main(), cleanedLicenses and the report payload
    progress, cleanedLicenses, payload,
    \* the rows the report reconciler ended its last run with
    reconciled,
    \* how many more runs of the fixer the history may hold
    runsLeft,
    \* one call of a function checked on its own: its arguments and what it
    \* returned
    call, ret,
    \* the orchestrator (fix-missing-licenses-exhaustive): where its main() is
    \* with its locals, the pass processes it spawned, and the exact fixer's
    \* reports under reports/ in the order of their modification times
    orch, children, exactReports

decideVars == <<typeIds, sectionIds, nameIds, decision, decided>>

fileVars == <<diskUrls, diskLicenses, reports, diskTags>>

runVars == <<phase, options, runTimestamp, urls, licenses, domainConsensus, missingRows,
             progress, cleanedLicenses, payload>>

poolVars == <<nextIndex, completed, output, worker>>

callVars == <<call, ret>>

orchVars == <<orch, children, exactReports>>

vars == <<decideVars, fileVars, clock, initialUrls, runVars, poolVars, reconciled, runsLeft,
          callVars, orchVars>>

\* ------------------------------------------------------------------------
\* Bounds and input sets
\* ------------------------------------------------------------------------

\* The most workers a run is started with.
MaxConcurrency == 2

\* The most runs of the fixer in one history.
MaxPasses == 2

\* The most passes the orchestrator's loop makes, the largest pass cap and the
\* largest stall threshold it is started with.
MaxLoopPasses == 4

MaxPassCap == 3

\* The records without a license in the dataset of the pool's own check.
PoolRows == 3

\* The most retries a fetch is given.
MaxRetries == 5

MaxStallThreshold == 3

\* The host that has the records with a license, and a host that has none.
KnownHost == "artist.bandcamp.com"

OtherHost == "label.bandcamp.com"

Repeat(x, n) == [i \in 1..n |-> x]

\* The licenses of the records that have one, in file order, all on KnownHost:
\* none; one; a tie; a 2-of-3 majority whose key comes second; ids no category
\* has; 15 records at 100% purity; 25 records at 92% purity.
KnownProfiles ==
    { << >>, <<3>>, <<3, 5>>, <<5, 3, 3>>, <<UnknownBcId>>, <<UnknownBcId, UnknownBcId, 3>>,
      Repeat(3, 15), Repeat(3, 23) \o <<5, 5>> }

\* The hosts of the records without a license, which follow in the file: one
\* such record after any profile, two after the short profiles.
MissingLayouts(known) ==
    IF Len(known) <= 1
    THEN { <<KnownHost>>, <<OtherHost>>, <<KnownHost, KnownHost>> }
    ELSE { <<KnownHost>>, <<OtherHost>> }

MissingSlugs == <<"ep", "ep-2">>

\* A row as the upstream sync writes it: besides the fields the tools set, a
\* title, tag ids (tag 1 on every row, tag 2 on the rows of even id) and the
\* favorite mark (on the first row).
Row(url_id, host, slug, license) ==
    [url_id |-> url_id, url |-> [host |-> host, slug |-> slug], license |-> license,
     status |-> "none", health_checked_at |-> 0, health_reason |-> "none",
     title |-> slug, tags |-> IF url_id % 2 = 0 THEN <<1, 2>> ELSE <<1>>,
     favorite |-> (url_id = 1)]

\* A dataset as the upstream sync leaves it: unique url_ids, no health fields.
Dataset(known, layout) ==
    [i \in 1..(Len(known) + Len(layout)) |->
        IF i <= Len(known)
        THEN Row(i, KnownHost, "lp", known[i])
        ELSE Row(i, layout[i - Len(known)], MissingSlugs[i - Len(known)], Null)]

\* The options of a run.  domainMinPurity is in percent.
Options(write, concurrency, flags, thresholds) ==
    [write |-> write, concurrency |-> concurrency,
     useArchive |-> flags[1], useSearchAlias |-> flags[2], useDomainConsensus |-> flags[3],
     domainMinKnown |-> thresholds[1], domainMinPurity |-> thresholds[2]]

\* DEFAULTS of the accelerated fixer (all fallbacks on, 20 known, purity 1).
DefaultOptions == Options(FALSE, 1, <<TRUE, TRUE, TRUE>>, <<20, 100>>)

FlagSets == { <<TRUE, TRUE, TRUE>>, <<FALSE, TRUE, TRUE>>, <<TRUE, FALSE, TRUE>>,
              <<TRUE, TRUE, FALSE>> }

Thresholds == { <<20, 100>>, <<10, 100>>, <<20, 90>>, <<1, 50>> }

AllOptions ==
    {Options(w, c, f, t) : w \in BOOLEAN, c \in 1..MaxConcurrency, f \in FlagSets, t \in Thresholds}

\* Pages of the runs: no markers; a type marker of category 5; a section link
\* of category 3 beside a name marker of category 5; two type markers.
NoEvidencePage == PageOf({}, {}, {})

TypePage == PageOf({5}, {}, {})

ConflictPage == PageOf({}, {"by-nc-sa"}, {"attribution_no_derivatives"})

AmbiguousPage == PageOf({3, 5}, {}, {})

LiveResults ==
    { Fetched(200, NoEvidencePage), Fetched(200, TypePage), Fetched(200, ConflictPage),
      Fetched(200, AmbiguousPage), Fetched(200, NoText),
      Fetched(404, NoEvidencePage), Fetched(404, TypePage),
      Fetched(503, NoEvidencePage), FetchFailed("fetch failed") }

\* The answers of the archive: the two lookups and the fetch of the snapshot.
NoArchive == [fromAvailable |-> Lookup(FALSE, Null, "none"), cdx |-> Lookup(FALSE, Null, "none"),
              archived |-> FetchFailed("fetch failed")]

ArchiveAnswers ==
    { [fromAvailable |-> a, cdx |-> c, archived |-> f] :
        a \in {Lookup(TRUE, 200, "web.archive.org/available"), Lookup(TRUE, 200, "none")},
        c \in {Lookup(TRUE, 200, "web.archive.org/cdx"), Lookup(FALSE, Null, "none")},
        f \in {Fetched(200, TypePage), Fetched(200, NoEvidencePage), FetchFailed("fetch failed")} }

\* The answers of the search and of the alias page, for a record at url.
MovedUrl(url) == [host |-> "moved.bandcamp.com", slug |-> url.slug]

MovedAgainUrl(url) == [host |-> "again.bandcamp.com", slug |-> url.slug]

NothingFound == Searched(TRUE, TRUE, {})

NoAlias == [searches |-> <<Searched(FALSE, FALSE, {}), Searched(FALSE, FALSE, {}),
                           Searched(FALSE, FALSE, {})>>,
            alias |-> FetchFailed("fetch failed")]

SearchAnswers(url) ==
    { <<Searched(FALSE, FALSE, {}), NothingFound, NothingFound>>,
      <<Searched(TRUE, TRUE, {MovedUrl(url), [host |-> "moved.bandcamp.com", slug |-> "lp"]}),
        NothingFound, NothingFound>>,
      <<Searched(TRUE, TRUE, {MovedUrl(url), MovedAgainUrl(url)}), NothingFound, NothingFound>>,
      <<Searched(TRUE, TRUE, {url}), NothingFound, NothingFound>>,
      <<NothingFound, Searched(TRUE, TRUE, {MovedUrl(url)}), NothingFound>>,
      <<NothingFound, NothingFound, Searched(TRUE, TRUE, {MovedUrl(url)})>> }

AliasAnswers(url) ==
    { [searches |-> s, alias |-> f] :
        s \in SearchAnswers(url),
        f \in {Fetched(200, TypePage), Fetched(200, NoEvidencePage),
                FetchFailed("fetch failed")} }

\* Everything the network may answer while the record at url is inspected
\* after the live fetch returned live.
Answers(url, opts, live) ==
    { [live |-> live, fromAvailable |-> ar.fromAvailable, cdx |-> ar.cdx,
       archived |-> ar.archived, searches |-> al.searches, alias |-> al.alias] :
        ar \in IF opts.useArchive /\ live.status = 404 THEN ArchiveAnswers ELSE {NoArchive},
        al \in IF opts.useSearchAlias /\ live.status = 404 THEN AliasAnswers(url) ELSE {NoAlias} }

NoOutcome == [url_id |-> 0, url |-> NoUrl, status |-> Null, archive_url |-> "none",
              alias_url |-> NoUrl, mapped |-> NoMapped, reason |-> "none"]

NoPayload == [generated_at |-> 0, write |-> FALSE, mapped |-> 0, missing_before |-> 0,
              missing_after |-> 0, results |-> << >>]

\* ------------------------------------------------------------------------
\* Specification SpecDecide: decideMappedId applied to every triple of sets
\* ------------------------------------------------------------------------

\* No process is running and main() holds nothing.
NoRun ==
    /\ phase = "idle"
    /\ options = DefaultOptions
    /\ runTimestamp = 0
    /\ urls = << >>
    /\ licenses = << >>
    /\ domainConsensus = << >>
    /\ missingRows = << >>
    /\ progress = [mapped |-> 0, unresolved |-> 0]
    /\ cleanedLicenses = << >>
    /\ payload = NoPayload
    /\ nextIndex = 0
    /\ completed = 0
    /\ output = << >>
    /\ worker = [w \in 1..MaxConcurrency |-> 0]

\* The files of a catalog that holds the dataset rows.
FilesOf(rows) ==
    /\ diskUrls = rows
    /\ diskLicenses = InitialLicenses
    /\ diskTags = InitialTags(rows)
    /\ reports = << >>
    /\ clock = 0
    /\ initialUrls = rows
    /\ reconciled = << >>

\* No function is being checked on its own, and no orchestrator runs.
NoArgs == [fn |-> "none"]

NotReturned == [returned |-> FALSE]

NoCall ==
    /\ call = NoArgs
    /\ ret = NotReturned

NoLoop == [pc |-> "none", pass |-> 0, consecutiveNoProgress |-> 0, evaluated |-> 0,
           maxPasses |-> 0, stopAfterNoProgressPasses |-> 0]

NoOrchestrator ==
    /\ orch = NoLoop
    /\ children = << >>
    /\ exactReports = << >>

NoDecide ==
    /\ typeIds = {}
    /\ sectionIds = {}
    /\ nameIds = {}
    /\ decision = NoDecision
    /\ decided = FALSE

InitDecide ==
    /\ typeIds \in SUBSET DecideIds
    /\ sectionIds \in SUBSET DecideIds
    /\ nameIds \in SUBSET DecideIds
    /\ decision = NoDecision
    /\ decided = FALSE
    /\ FilesOf(<< >>)
    /\ NoRun
    /\ runsLeft = 0
    /\ NoCall
    /\ NoOrchestrator

Decide ==
    /\ ~decided
    /\ decision' = decideMappedId(typeIds, sectionIds, nameIds)
    /\ decided' = TRUE
    /\ UNCHANGED <<typeIds, sectionIds, nameIds>>
    /\ UNCHANGED <<fileVars, clock, initialUrls, runVars, poolVars, reconciled, runsLeft,
                   callVars, orchVars>>

NextDecide == Decide

SpecDecide == InitDecide /\ [][NextDecide]_vars

\* ------------------------------------------------------------------------
\* Specification SpecAlias: findBandcampAliasAlbumUrl applied to every record
\* URL and every triple of search answers
\* ------------------------------------------------------------------------

\* The record URLs of the calls: a slug without and one with a trailing number.
AliasUrls == {[host |-> KnownHost, slug |-> MissingSlugs[i]] : i \in DOMAIN MissingSlugs}

\* What one search may answer for a record at url: a failed fetch, an empty
\* body, and bodies with no link, one matching link, two matching links, the
\* record's own URL, its own URL beside another match, and a link of another slug.
SearchPages(url) ==
    { Searched(FALSE, FALSE, {}), Searched(TRUE, FALSE, {}), NothingFound,
      Searched(TRUE, TRUE, {MovedUrl(url)}),
      Searched(TRUE, TRUE, {MovedAgainUrl(url)}),
      Searched(TRUE, TRUE, {MovedUrl(url), MovedAgainUrl(url)}),
      Searched(TRUE, TRUE, {url}),
      Searched(TRUE, TRUE, {url, MovedUrl(url)}),
      Searched(TRUE, TRUE, {MovedUrl(url), [host |-> "moved.bandcamp.com", slug |-> "lp"]}) }

InitAlias ==
    /\ \E url \in AliasUrls : \E searches \in [1..3 -> SearchPages(url)] :
          call = [fn |-> "findBandcampAliasAlbumUrl", originalUrl |-> url,
                  searches |-> searches]
    /\ ret = NotReturned
    /\ FilesOf(<< >>)
    /\ NoRun
    /\ NoDecide
    /\ NoOrchestrator
    /\ runsLeft = 0

AliasReturns ==
    /\ call.fn = "findBandcampAliasAlbumUrl"
    /\ ~ret.returned
    /\ ret' = [returned |-> TRUE,
               value |-> findBandcampAliasAlbumUrl(call.originalUrl, call.searches)]
    /\ UNCHANGED <<call, decideVars, fileVars, clock, initialUrls, runVars, poolVars,
                   reconciled, runsLeft, orchVars>>

NextAlias == AliasReturns

SpecAlias == InitAlias /\ [][NextAlias]_vars

\* ------------------------------------------------------------------------
\* Specification SpecChain: inspectRow applied to one record under every
\* setting of the fallbacks and every answer of the network
\* ------------------------------------------------------------------------

ChainRow == Row(1, KnownHost, "ep", Null)

AllFlags == {<<a, s, d>> : a \in BOOLEAN, s \in BOOLEAN, d \in BOOLEAN}

ChainOptions == {Options(FALSE, 1, f, <<1, 50>>) : f \in AllFlags}

\* The consensus tables: of a dataset with no known record, and of one whose
\* host has one known record.
ChainTables == {buildDomainConsensus(Dataset(known, <<KnownHost>>)) : known \in {<< >>, <<3>>}}

\* Every answer of the network, asked for or not.
ChainAnswers(url) ==
    { [live |-> live, fromAvailable |-> ar.fromAvailable, cdx |-> ar.cdx,
       archived |-> ar.archived, searches |-> al.searches, alias |-> al.alias] :
        live \in LiveResults \cup {Fetched(503, TypePage)},
        ar \in ArchiveAnswers, al \in AliasAnswers(url) }

InitChain ==
    /\ \E options_ \in ChainOptions, table \in ChainTables, env \in ChainAnswers(ChainRow.url) :
          call = [fn |-> "inspectRow", row |-> ChainRow, options |-> options_,
                  domainConsensus |-> table, env |-> env]
    /\ ret = NotReturned
    /\ FilesOf(<< >>)
    /\ NoRun
    /\ NoDecide
    /\ NoOrchestrator
    /\ runsLeft = 0

ChainReturns ==
    /\ call.fn = "inspectRow"
    /\ ~ret.returned
    /\ ret' = [returned |-> TRUE,
               value |-> inspectRow(call.row, call.options, validBcIdsOf(InitialLicenses),
                                    slugToBcIdOf(InitialLicenses), call.domainConsensus,
                                    call.env),
               consulted |-> inspectRowSteps(call.row, call.options,
                                             validBcIdsOf(InitialLicenses),
                                             slugToBcIdOf(InitialLicenses),
                                             call.domainConsensus, call.env)]
    /\ UNCHANGED <<call, decideVars, fileVars, clock, initialUrls, runVars, poolVars,
                   reconciled, runsLeft, orchVars>>

NextChain == ChainReturns

SpecChain == InitChain /\ [][NextChain]_vars

\* ------------------------------------------------------------------------
\* Actions of the exact fixer and of the orchestrator
\* ------------------------------------------------------------------------

RunningChild == [state |-> "running", code |-> "none"]

ExitedChild(code) == [state |-> "exited", code |-> code]

\* The top of the loop up to the await in runFixPass: the pass is counted and
\* the pass process is spawned, or the spawn fails and main() rejects.
RunFixPass ==
    \/ /\ orch' = runFixPassAwaited([orch EXCEPT !.pass = @ + 1])
       /\ children' = Append(children, RunningChild)
    \/ /\ orch' = [orch EXCEPT !.pass = @ + 1, !.pc = "failed"]
       /\ children' = children

\* main() of the orchestrator from its start to the first await.
StartLoop ==
    /\ orch.pc = "start"
    /\ RunFixPass
    /\ UNCHANGED <<exactReports, decideVars, fileVars, clock, initialUrls, runVars, poolVars,
                   reconciled, runsLeft, callVars>>

\* One run of the exact fixer with --write, from its start to its exit: it
\* ends with exit code 0 after writing its report and both files, or fails
\* before it wrote anything, or after the report and before the files, or is
\* killed.
ExactPassRuns ==
    \E k \in DOMAIN children :
       /\ children[k].state = "running"
       /\ LET missing == SelectSeq(diskUrls, LAMBDA u : u.license = Null)
          IN  \E answers \in [DOMAIN missing -> ExactAnswers] :
                 LET results == [i \in DOMAIN missing |-> inspectListing(missing[i], answers[i])]
                     merged == exactMerge(diskUrls, results)
                 IN  \/ /\ exactReports' = Append(exactReports,
                                                  exactPayload(missing, merged, results))
                        /\ diskUrls' = merged
                        /\ diskLicenses' = exactCleanLicenses(diskLicenses, merged)
                        /\ children' = [children EXCEPT ![k] = ExitedChild("0")]
                     \/ /\ exactReports' = Append(exactReports,
                                                  exactPayload(missing, merged, results))
                        /\ children' = [children EXCEPT ![k] = ExitedChild("1")]
                        /\ UNCHANGED <<diskUrls, diskLicenses>>
       /\ UNCHANGED <<orch, reports, diskTags, decideVars, clock, initialUrls, runVars, poolVars,
                      reconciled, runsLeft, callVars>>

ExactPassDies ==
    \E k \in DOMAIN children :
       /\ children[k].state = "running"
       /\ \E code \in {"1", "null"} : children' = [children EXCEPT ![k] = ExitedChild(code)]
       /\ UNCHANGED <<orch, exactReports, decideVars, fileVars, clock, initialUrls, runVars,
                      poolVars, reconciled, runsLeft, callVars>>

\* The exit handler of the awaited pass process and main() up to its next
\* await or its end: a failed pass rejects and the process exits with code 1;
\* else the latest report is loaded and evaluated.
PassExits ==
    /\ orch.pc = "awaitPass"
    /\ children[Len(children)].state = "exited"
    /\ IF ~passSucceeded(children[Len(children)].code) \/ exactReports = << >>
       THEN orch' = [orch EXCEPT !.pc = "failed"]
       ELSE LET report == latestFixReportPath(exactReports)
                counted == [orch EXCEPT
                              !.evaluated = orch.pass,
                              !.consecutiveNoProgress = noProgressAfter(@, report.mapped)]
            IN  orch' = [counted EXCEPT
                           !.pc = IF loopEnds(counted, report.missing_after)
                                  THEN "done" ELSE "sleeping"]
    /\ UNCHANGED <<children, exactReports, decideVars, fileVars, clock, initialUrls, runVars,
                   poolVars, reconciled, runsLeft, callVars>>

\* The sleep between two passes ends and the loop goes round.  The pass
\* counter is capped beyond what a loop with stall detection can reach: each
\* record is mapped at most once and every run of passes that map nothing
\* is at most the stall threshold long.
Wake ==
    /\ orch.pc = "sleeping"
    /\ orch.pass < MaxLoopPasses + Len(diskUrls) * orch.stopAfterNoProgressPasses
    /\ RunFixPass
    /\ UNCHANGED <<exactReports, decideVars, fileVars, clock, initialUrls, runVars, poolVars,
                   reconciled, runsLeft, callVars>>

\* ------------------------------------------------------------------------
\* Specification SpecOrchestrator: one run of the orchestrator
\* ------------------------------------------------------------------------

\* A report an earlier run of the exact fixer left under reports/.
StaleReport == [mapped |-> 1, unresolved |-> 0, missing_before |-> 1, missing_after |-> 0]

\* The dataset is as the sync left it, or holds a licensed record an earlier
\* run of the accelerated fixer marked dead.
InitOrchestrator ==
    /\ \E cap \in 0..MaxPassCap, stall \in 0..MaxStallThreshold :
          orch = [pc |-> "start", pass |-> 0, consecutiveNoProgress |-> 0, evaluated |-> 0,
                  maxPasses |-> cap, stopAfterNoProgressPasses |-> stall]
    /\ children = << >>
    /\ exactReports \in {<< >>, <<StaleReport>>}
    /\ \E left \in {"none", "dead"} :
          diskUrls = [Dataset(<<3>>, <<KnownHost, KnownHost>>) EXCEPT
                         ![1].status = left,
                         ![1].health_reason = IF left = "dead" THEN "http_404" ELSE "none"]
    /\ diskLicenses = InitialLicenses
    /\ diskTags = InitialTags(diskUrls)
    /\ reports = << >>
    /\ clock = 0
    /\ initialUrls = diskUrls
    /\ reconciled = << >>
    /\ NoRun
    /\ NoDecide
    /\ NoCall
    /\ runsLeft = 0

NextOrchestrator ==
    \/ StartLoop
    \/ ExactPassRuns
    \/ ExactPassDies
    \/ PassExits
    \/ Wake

SpecOrchestrator == InitOrchestrator /\ [][NextOrchestrator]_vars

\* The same run when the process is scheduled, every pass process ends
\* (with an exit code, or killed), the exit handler of the awaited pass runs
\* and the timer of the sleep fires.
SpecOrchestratorLive ==
    /\ SpecOrchestrator
    /\ WF_vars(StartLoop)
    /\ WF_vars(ExactPassRuns \/ ExactPassDies)
    /\ WF_vars(PassExits)
    /\ WF_vars(Wake)

\* ------------------------------------------------------------------------
\* Actions of the accelerated fixer: one run of main()
\* ------------------------------------------------------------------------

Min(a, b) == IF a <= b THEN a ELSE b

\* A plausible slip: the file rewritten whether or not --write was given.
persistedAlways(write, inMemory, onDisk) == inMemory

\* if (options.write) { writeFile(...) }: what the file holds afterwards.
persisted(write, inMemory, onDisk) == IF write THEN inMemory ELSE onDisk

MissingCount(rows) == Cardinality({i \in DOMAIN rows : rows[i].license = Null})

\* main() up to the start of the pool: the options are parsed, both files are
\* read, the consensus table is built from the rows just read, the rows
\* without a license are selected, and mapWithConcurrency starts its workers,
\* each of which takes an index before its first await.
StartPass(opts) ==
    /\ phase = "idle"
    /\ runsLeft > 0
    /\ runsLeft' = runsLeft - 1
    /\ clock' = clock + 1
    /\ runTimestamp' = clock + 1
    /\ options' = opts
    /\ urls' = diskUrls
    /\ licenses' = diskLicenses
    /\ domainConsensus' = buildDomainConsensus(diskUrls)
    /\ missingRows' = SelectSeq(diskUrls, LAMBDA u : u.license = Null)
    /\ progress' = [mapped |-> 0, unresolved |-> 0]
    /\ LET workerCount == Min(opts.concurrency, Len(missingRows'))
       IN  /\ worker' = [w \in 1..MaxConcurrency |-> IF w <= workerCount THEN w ELSE 0]
           /\ nextIndex' = workerCount + 1
    /\ completed' = 0
    /\ output' = [i \in 1..Len(missingRows') |-> NoOutcome]
    /\ phase' = "running"
    /\ UNCHANGED <<cleanedLicenses, payload, fileVars, initialUrls, reconciled, decideVars, callVars, orchVars>>

\* A plausible slip: the worker writes the license it found into the rows in
\* memory and rebuilds the consensus table at once.
WorkerCompleteMerging(w) ==
    /\ phase = "running"
    /\ worker[w] # 0
    /\ \E live \in LiveResults :
       \E env \in Answers(missingRows[worker[w]].url, options, live) :
          LET result == inspectRow(missingRows[worker[w]], options, validBcIdsOf(licenses),
                                   slugToBcIdOf(licenses), domainConsensus, env)
          IN  /\ output' = [output EXCEPT ![worker[w]] = result]
              /\ progress' = onProgress(progress, result)
              /\ urls' = mergeResults(urls, <<result>>, runTimestamp)
              /\ domainConsensus' = buildDomainConsensus(urls')
    /\ completed' = completed + 1
    /\ nextIndex' = nextIndex + 1
    /\ worker' = [worker EXCEPT ![w] = takeIndex(nextIndex, Len(missingRows))]
    /\ UNCHANGED <<phase, options, runTimestamp, licenses, missingRows, cleanedLicenses, payload>>
    /\ UNCHANGED <<fileVars, clock, initialUrls, reconciled, runsLeft, decideVars, callVars, orchVars>>

\* A worker's mapper call returns: the result is stored at the worker's index,
\* the progress callback runs, and the worker takes the next index from the
\* cursor or, past the end of the list, returns.
WorkerComplete(w) ==
    /\ phase = "running"
    /\ worker[w] # 0
    /\ \E live \in LiveResults :
       \E env \in Answers(missingRows[worker[w]].url, options, live) :
          LET result == inspectRow(missingRows[worker[w]], options, validBcIdsOf(licenses),
                                   slugToBcIdOf(licenses), domainConsensus, env)
          IN  /\ output' = [output EXCEPT ![worker[w]] = result]
              /\ progress' = onProgress(progress, result)
    /\ completed' = completed + 1
    /\ nextIndex' = nextIndex + 1
    /\ worker' = [worker EXCEPT ![w] = takeIndex(nextIndex, Len(missingRows))]
    /\ UNCHANGED <<phase, options, runTimestamp, urls, licenses, domainConsensus, missingRows,
                   cleanedLicenses, payload>>
    /\ UNCHANGED <<fileVars, clock, initialUrls, reconciled, runsLeft, decideVars, callVars, orchVars>>

\* main() after the pool: the merge loop over the rows in memory, the license
\* counts, the summary and the report payload.
Merge ==
    /\ phase = "running"
    /\ \A w \in 1..MaxConcurrency : worker[w] = 0
    /\ urls' = mergeResults(urls, output, runTimestamp)
    /\ cleanedLicenses' = cleanLicenses(licenses, urls')
    /\ payload' = [generated_at |-> runTimestamp,
                   write |-> options.write,
                   mapped |-> Cardinality({i \in DOMAIN output : output[i].mapped # NoMapped}),
                   missing_before |-> Len(missingRows),
                   missing_after |-> MissingCount(urls'),
                   results |-> output]
    /\ phase' = "merged"
    /\ UNCHANGED <<options, runTimestamp, licenses, domainConsensus, missingRows, progress>>
    /\ UNCHANGED <<poolVars, fileVars, clock, initialUrls, reconciled, runsLeft, decideVars, callVars, orchVars>>

\* A plausible slip: the tag counts recomputed and written with the dataset.
WriteFilesRecountingTags ==
    /\ phase = "merged"
    /\ reports' = Append(reports, payload)
    /\ diskUrls' = persisted(options.write, urls, diskUrls)
    /\ diskLicenses' = persisted(options.write, cleanedLicenses, diskLicenses)
    /\ diskTags' = persisted(options.write,
                           [i \in DOMAIN diskTags |->
                               [diskTags[i] EXCEPT
                                   !.count = tagCounts(urls, validBcIdsOf(licenses),
                                                       diskTags[i].tag_id)]],
                           diskTags)
    /\ phase' = "idle"
    /\ options' = DefaultOptions
    /\ runTimestamp' = 0
    /\ urls' = << >>
    /\ licenses' = << >>
    /\ domainConsensus' = << >>
    /\ missingRows' = << >>
    /\ progress' = [mapped |-> 0, unresolved |-> 0]
    /\ cleanedLicenses' = << >>
    /\ payload' = NoPayload
    /\ nextIndex' = 0
    /\ completed' = 0
    /\ output' = << >>
    /\ worker' = [w \in 1..MaxConcurrency |-> 0]
    /\ UNCHANGED <<clock, initialUrls, reconciled, runsLeft, decideVars, callVars, orchVars>>

\* The end of main(): the report is written, with --write both files are
\* rewritten, and the process exits.
WriteFiles ==
    /\ phase = "merged"
    /\ reports' = Append(reports, payload)
    /\ diskUrls' = persisted(options.write, urls, diskUrls)
    /\ diskLicenses' = persisted(options.write, cleanedLicenses, diskLicenses)
    /\ diskTags' = diskTags
    /\ phase' = "idle"
    /\ options' = DefaultOptions
    /\ runTimestamp' = 0
    /\ urls' = << >>
    /\ licenses' = << >>
    /\ domainConsensus' = << >>
    /\ missingRows' = << >>
    /\ progress' = [mapped |-> 0, unresolved |-> 0]
    /\ cleanedLicenses' = << >>
    /\ payload' = NoPayload
    /\ nextIndex' = 0
    /\ completed' = 0
    /\ output' = << >>
    /\ worker' = [w \in 1..MaxConcurrency |-> 0]
    /\ UNCHANGED <<clock, initialUrls, reconciled, runsLeft, decideVars, callVars, orchVars>>

\* ------------------------------------------------------------------------
\* Action of the report reconciler: one run of its main()
\* ------------------------------------------------------------------------

\* The report files in the order readdir lists them.
Listings ==
    {[i \in DOMAIN reports |-> reports[p[i]]] : p \in Permutations(DOMAIN reports)}

Reconcile(write) ==
    /\ phase = "idle"
    /\ reports # << >>
    /\ \E listing \in Listings :
          reconciled' = replayReports(diskUrls, sortReports(listing))
    /\ diskUrls' = persisted(write, reconciled', diskUrls)
    /\ UNCHANGED <<diskLicenses, reports, diskTags, clock, initialUrls, runVars, poolVars, runsLeft,
                   decideVars, callVars, orchVars>>

\* ------------------------------------------------------------------------
\* Specification Spec: one run of the accelerated fixer on every dataset
\* ------------------------------------------------------------------------

Init ==
    /\ \E known \in KnownProfiles : \E layout \in MissingLayouts(known) :
          FilesOf(Dataset(known, layout))
    /\ NoRun
    /\ NoDecide
    /\ runsLeft = 1
    /\ NoCall
    /\ NoOrchestrator

Next ==
    \/ \E opts \in AllOptions : StartPass(opts)
    \/ \E w \in 1..MaxConcurrency : WorkerComplete(w)
    \/ Merge
    \/ WriteFiles

Spec == Init /\ [][Next]_vars

\* ------------------------------------------------------------------------
\* Specification SpecHistory: runs of the fixer one after the other, with and
\* without --write, and runs of the report reconciler between them
\* ------------------------------------------------------------------------

HistoryProfiles == { << >>, <<3>> }

HistoryLayouts == { <<KnownHost>> }

HistoryOptions ==
    {Options(w, MaxConcurrency, <<TRUE, TRUE, TRUE>>, <<1, 50>>) : w \in BOOLEAN}

InitHistory ==
    /\ \E known \in HistoryProfiles, layout \in HistoryLayouts :
          FilesOf(Dataset(known, layout))
    /\ NoRun
    /\ NoDecide
    /\ runsLeft = MaxPasses
    /\ NoCall
    /\ NoOrchestrator

NextHistory ==
    \/ \E opts \in HistoryOptions : StartPass(opts)
    \/ \E w \in 1..MaxConcurrency : WorkerComplete(w)
    \/ Merge
    \/ WriteFiles
    \/ \E write \in BOOLEAN : Reconcile(write)

SpecHistory == InitHistory /\ [][NextHistory]_vars

\* ------------------------------------------------------------------------
\* Specification SpecFaults: runs of the fixer followed by one start of the
\* fixer or one run of the reconciler with bad options or unreadable files
\* ------------------------------------------------------------------------

\* A plausible slip: a file taken as read whatever it holds.
LoadsAnything(file) == TRUE

\* A plausible slip: the checks at the end of parseArgs left out.
parseArgsAcceptsAny(opts) == TRUE

\* The checks at the end of the accelerated fixer's parseArgs, of the
\* options the model carries (the purity in hundredths).
parseArgsAccepts(opts) ==
    /\ opts.concurrency > 0
    /\ opts.domainMinKnown >= 1
    /\ opts.domainMinPurity > 0
    /\ opts.domainMinPurity <= 100

\* What a tool finds where it reads a file: JSON text, text that JSON.parse
\* rejects, or no file.
FileStates == {"json", "malformed", "missing"}

\* readFile and JSON.parse both return.
Loads(file) == file = "json"

\* Option values as the command line may give them, good and bad.
FaultArgs ==
    HistoryOptions
    \cup {Options(w, c, <<TRUE, TRUE, TRUE>>, <<1, 50>>) : w \in BOOLEAN, c \in {-1, 0}}
    \cup {Options(TRUE, 1, <<TRUE, TRUE, TRUE>>, t) : t \in {<<0, 50>>, <<1, 0>>, <<1, 150>>}}

\* The exit of a tool: process.exit(1) from main().catch, or the normal end;
\* whether it wrote its own report, and whether it wrote a data file.
Exit(code, reported, wrote) ==
    [returned |-> TRUE, value |-> code, reported |-> reported, wrote |-> wrote]

RECURSIVE Without(_, _)
\* The sequence without the entries at the indices in S.
Without(seq, S) ==
    IF seq = << >> THEN << >>
    ELSE LET front == Without(SubSeq(seq, 1, Len(seq) - 1), S)
         IN  IF Len(seq) \in S THEN front ELSE Append(front, seq[Len(seq)])

\* The entries of a sequence in every order.
Orders(seq) == {[i \in DOMAIN seq |-> seq[p[i]]] : p \in Permutations(DOMAIN seq)}

InitFaults ==
    /\ \E known \in HistoryProfiles, layout \in HistoryLayouts :
          FilesOf(Dataset(known, layout))
    /\ NoRun
    /\ NoDecide
    /\ runsLeft = MaxPasses
    /\ NoCall
    /\ NoOrchestrator

\* The fixer's main() is started: parseArgs throws, or reading one of the
\* two files throws, and main().catch ends the process; or the run begins.
MainStarts(opts, urlsFile, licensesFile) ==
    /\ call = NoArgs
    /\ IF parseArgsAccepts(opts) /\ Loads(urlsFile) /\ Loads(licensesFile)
       THEN StartPass(opts)
       ELSE /\ phase = "idle"
            /\ runsLeft > 0
            /\ call' = [fn |-> "main", options |-> opts, urlsFile |-> urlsFile,
                        licensesFile |-> licensesFile, malformed |-> {}]
            /\ ret' = Exit("1", FALSE, FALSE)
            /\ UNCHANGED <<decideVars, fileVars, clock, initialUrls, runVars, poolVars,
                           reconciled, runsLeft, orchVars>>

\* One run of the reconciler's main(): urls.json does not load and the run
\* fails; there is no report and it returns; or the report files that parse
\* are replayed in the order of their timestamps, those that do not parse
\* are skipped, and with --write urls.json is rewritten.
ReconcilerRuns(write, urlsFile, malformed) ==
    /\ phase = "idle"
    /\ call = NoArgs
    /\ call' = [fn |-> "reconciler", options |-> [write |-> write], urlsFile |-> urlsFile,
                licensesFile |-> "json", malformed |-> malformed]
    /\ IF ~Loads(urlsFile)
       THEN /\ ret' = Exit("1", FALSE, FALSE)
            /\ UNCHANGED <<diskUrls, reconciled>>
       ELSE IF reports = << >>
       THEN /\ ret' = Exit("0", FALSE, FALSE)
            /\ UNCHANGED <<diskUrls, reconciled>>
       ELSE /\ \E listing \in Orders(Without(reports, malformed)) :
                  reconciled' = replayReports(diskUrls, sortReports(listing))
            /\ diskUrls' = persisted(write, reconciled', diskUrls)
            /\ ret' = Exit("0", TRUE, write)
    /\ UNCHANGED <<diskLicenses, reports, diskTags, clock, initialUrls, runVars, poolVars, runsLeft,
                   decideVars, orchVars>>

NextFaults ==
    \/ \E opts \in FaultArgs, urlsFile \in FileStates, licensesFile \in FileStates :
          MainStarts(opts, urlsFile, licensesFile)
    \/ \E w \in 1..MaxConcurrency : WorkerComplete(w)
    \/ Merge
    \/ WriteFiles
    \/ \E write \in BOOLEAN, urlsFile \in FileStates, malformed \in SUBSET DOMAIN reports :
          ReconcilerRuns(write, urlsFile, malformed)

SpecFaults == InitFaults /\ [][NextFaults]_vars

\* ------------------------------------------------------------------------
\* Specification SpecFetch: the retry loops, attempt by attempt:
\* fetchWithRetries of the accelerated fixer and the loop of the exact
\* fixer's inspectListing
\* ------------------------------------------------------------------------

RETRYABLE_HTTP_STATUSES == {403, 408, 425, 429, 500, 502, 503, 504}

RECURSIVE Pow2(_)
\* 2 ** n.
Pow2(n) == IF n = 0 THEN 1 ELSE 2 * Pow2(n - 1)

MaxOf(a, b) == IF a >= b THEN a ELSE b

\* A plausible slip: the delay left without its cap.
backoffMsUncapped(attempt, base, cap) == base * Pow2(MaxOf(0, attempt - 1))

\* Math.min(cap, base * 2 ** Math.max(0, attempt - 1)).
backoffMs(attempt, base, cap) == Min(cap, base * Pow2(MaxOf(0, attempt - 1)))

\* The exact fixer's delay; Math.floor leaves the integers it is given.
backoffDelayMs(attempt, baseMs, maxMs) ==
    IF baseMs <= 0 THEN 0 ELSE Min(maxMs, baseMs * Pow2(attempt - 1))

\* A plausible slip: every error status taken as a reason to retry.
retryWantedOnAnyError(fetched, attempt, retries) ==
    IF fetched.ok
    THEN fetched.status >= 400 /\ attempt <= retries
    ELSE attempt <= retries

\* The branch of fetchWithRetries that sleeps and goes round again.
retryWanted(fetched, attempt, retries) ==
    IF fetched.ok
    THEN fetched.status \in RETRYABLE_HTTP_STATUSES /\ attempt <= retries
    ELSE attempt <= retries

\* What one fetchText call may return: a response of any status, or the
\* failure it makes of a transport error or of the abort on its timeout.
FetchTexts ==
    { Fetched(200, TypePage), Fetched(404, NoEvidencePage), Fetched(429, NoEvidencePage),
      Fetched(503, NoEvidencePage), FetchFailed("fetch failed"),
      FetchFailed("This operation was aborted") }

NoFetch == [ok |-> FALSE, status |-> Null, page |-> NoText, error |-> "none"]

\* The base and the cap backoffMs takes by default.
DefaultBackoff == <<600, 8000>>

\* Settings of --status-backoff-ms and --status-backoff-max-ms that the exact
\* fixer's parseArgs lets through (the second at least the first, none negative).
ExactBackoffs == {<<0, 0>>, <<0, 20000>>, <<1000, 1000>>, <<1000, 20000>>, <<3, 20>>}

ExactListing == Row(1, KnownHost, "ep", Null)

\* A call that has made no attempt yet.
RetryCall(fn, retries, backoff) ==
    [fn |-> fn, pc |-> "fetch", retries |-> retries, base |-> backoff[1], cap |-> backoff[2],
     attempt |-> 1, fetches |-> 0, last |-> NoFetch, slept |-> << >>]

InitFetch ==
    /\ \/ \E retries \in 0..MaxRetries :
             call = RetryCall("fetchWithRetries", retries, DefaultBackoff)
       \/ \E retries \in 0..MaxRetries, backoff \in ExactBackoffs :
             call = RetryCall("inspectListing", retries, backoff)
    /\ ret = NotReturned
    /\ FilesOf(<< >>)
    /\ NoRun
    /\ NoDecide
    /\ NoOrchestrator
    /\ runsLeft = 0

\* One turn of the loop of fetchWithRetries up to its next await: fetchText
\* returns, and the loop sleeps before another attempt or the function
\* returns what the attempt gave.
FetchAttempt ==
    /\ call.fn = "fetchWithRetries"
    /\ call.pc = "fetch"
    /\ call.attempt <= call.retries + 1
    /\ \E fetched \in FetchTexts :
          IF retryWanted(fetched, call.attempt, call.retries)
          THEN /\ call' = [call EXCEPT !.last = fetched, !.fetches = @ + 1, !.pc = "sleep",
                                       !.slept = Append(@, backoffMs(call.attempt, call.base,
                                                                     call.cap))]
               /\ UNCHANGED ret
          ELSE /\ call' = [call EXCEPT !.last = fetched, !.fetches = @ + 1, !.pc = "done",
                                       !.attempt = IF fetched.ok THEN @ ELSE @ + 1]
               /\ ret' = [returned |-> TRUE, value |-> fetched]
    /\ UNCHANGED <<decideVars, fileVars, clock, initialUrls, runVars, poolVars, reconciled,
                   runsLeft, orchVars>>

\* One turn of the loop of inspectListing up to its next await: fetchPage
\* returns a page or throws, and the loop sleeps before another attempt or
\* the function returns its result.
ListingAttempt ==
    /\ call.fn = "inspectListing"
    /\ call.pc = "fetch"
    /\ call.attempt <= call.retries + 1
    /\ \E answer \in ExactAnswers :
          LET attempts == call.retries + 1
              again == /\ call.attempt < attempts
                       /\ answer.failed \/ answer.status \in RETRYABLE_HTTP_STATUSES
          IN  IF again
              THEN /\ call' = [call EXCEPT !.last = answer, !.fetches = @ + 1, !.pc = "sleep",
                                           !.slept = Append(@, backoffDelayMs(call.attempt,
                                                                              call.base,
                                                                              call.cap))]
                   /\ UNCHANGED ret
              ELSE /\ call' = [call EXCEPT !.last = answer, !.fetches = @ + 1, !.pc = "done",
                                           !.attempt = IF answer.failed THEN @ + 1 ELSE @]
                   /\ ret' = [returned |-> TRUE, value |-> inspectListing(ExactListing, answer)]
    /\ UNCHANGED <<decideVars, fileVars, clock, initialUrls, runVars, poolVars, reconciled,
                   runsLeft, orchVars>>

\* The sleep ends and the loop comes to its next attempt.
BackoffElapsed ==
    /\ call.fn \in {"fetchWithRetries", "inspectListing"}
    /\ call.pc = "sleep"
    /\ call' = [call EXCEPT !.attempt = @ + 1, !.pc = "fetch"]
    /\ UNCHANGED <<ret, decideVars, fileVars, clock, initialUrls, runVars, poolVars, reconciled,
                   runsLeft, orchVars>>

NextFetch ==
    \/ FetchAttempt
    \/ ListingAttempt
    \/ BackoffElapsed

SpecFetch == InitFetch /\ [][NextFetch]_vars

\* ------------------------------------------------------------------------
\* Specification SpecPool: one run of the fixer on more records than workers,
\* with the fallbacks off
\* ------------------------------------------------------------------------

PoolDataset ==
    [i \in 1..PoolRows |-> Row(i, KnownHost, MissingSlugs[1 + (i % 2)], Null)]

PoolOptions ==
    {Options(FALSE, c, <<FALSE, FALSE, FALSE>>, <<20, 100>>) : c \in 1..MaxConcurrency}

InitPool ==
    /\ FilesOf(PoolDataset)
    /\ NoRun
    /\ NoDecide
    /\ NoCall
    /\ NoOrchestrator
    /\ runsLeft = 1

NextPool ==
    \/ \E opts \in PoolOptions : StartPass(opts)
    \/ \E w \in 1..MaxConcurrency : WorkerComplete(w)
    \/ Merge
    \/ WriteFiles

SpecPool == InitPool /\ [][NextPool]_vars

\* ------------------------------------------------------------------------
\* Claims about one run of the fixer (checked under Spec)
\* ------------------------------------------------------------------------

\* The merge loop has run and main() holds the merged rows.
Merged == phase = "merged"

\* The row of the merged set that the i-th result belongs to.
MergedRow(i) == urls[CHOOSE j \in DOMAIN urls : urls[j].url_id = output[i].url_id]

ActiveRows(rows) == {j \in DOMAIN rows : normalizedStatus(rows[j].status) = "active"}

\* C1: after the merge every record whose normalized status is active has a
\* non-null license that is the id of a known category.
C1_ActiveRowsHaveKnownLicense ==
    Merged => \A j \in ActiveRows(urls) :
                 urls[j].license # Null /\ urls[j].license \in validBcIdsOf(licenses)

\* C2: after the merge the recomputed count of every license category is the
\* number of records with active status whose license is that category's id.
C2_CountsAreExact ==
    Merged =>
        /\ Len(cleanedLicenses) = Len(licenses)
        /\ \A k \in DOMAIN cleanedLicenses :
              /\ cleanedLicenses[k].bc_id = licenses[k].bc_id
              /\ cleanedLicenses[k].count =
                    Cardinality({j \in ActiveRows(urls) :
                                    urls[j].license = cleanedLicenses[k].bc_id})

\* A merge that left a licensed dead record behind, counted an active one, and
\* replaced the count the file held.
C2_Witness ==
    /\ Merged
    /\ \E j \in DOMAIN urls : urls[j].status = "dead" /\ urls[j].license = 5
    /\ \E k \in DOMAIN cleanedLicenses :
          /\ cleanedLicenses[k].bc_id = 5
          /\ cleanedLicenses[k].count = 1
          /\ licenses[k].count # 1

\* C3: the merge is idempotent: the per-outcome rule applied a second time,
\* with the same outcomes, to the result of its first application changes no
\* field of any record; this holds of the fixer's merge loop and of the
\* reconciler's replay of the same report.
C3_MergeIdempotent ==
    Merged =>
        /\ mergeResults(urls, output, runTimestamp) = urls
        /\ LET once == replayResults(diskUrls, output, runTimestamp)
           IN  replayResults(once, output, runTimestamp) = once

\* A merge that rewrote a url, set a license and changed a status.
C3_Witness ==
    /\ Merged
    /\ urls # diskUrls
    /\ \E j \in DOMAIN urls :
          /\ urls[j].url # diskUrls[j].url
          /\ urls[j].license # diskUrls[j].license
          /\ urls[j].status = "active"
    /\ \E j \in DOMAIN urls : urls[j].status = "unverified"

\* The rows the reconciler would end with, replaying this run's report alone.
ReplayedRow(i) ==
    LET rows == replayResults(diskUrls, output, runTimestamp)
    IN  rows[CHOOSE j \in DOMAIN rows : rows[j].url_id = output[i].url_id]

FollowsStatusPolicy(o, row) ==
    IF o.status = 404 /\ o.alias_url = NoUrl
    THEN row.status = "dead"
    ELSE IF o.mapped # NoMapped
    THEN row.status = "active" /\ row.health_reason = o.mapped.source
    ELSE row.status = "unverified" /\ row.health_reason = o.reason

\* C8: after a merge every processed record is dead when the live fetch
\* reported 404 and no alias substituted a working URL; else active with the
\* deciding provenance as health_reason when a strategy decided; else
\* unverified with the failure reason as health_reason.  The same holds of
\* the reconciler's replay of the run's report.
C8_StatusPolicy ==
    Merged => \A i \in DOMAIN output :
        /\ FollowsStatusPolicy(output[i], MergedRow(i))
        /\ FollowsStatusPolicy(output[i], ReplayedRow(i))

\* A merge with a record kept active through an alias although its live URL
\* returned 404, and a record that is dead.
C8_Witness ==
    /\ Merged
    /\ \E i \in DOMAIN output :
          /\ output[i].status = 404
          /\ output[i].alias_url # NoUrl
          /\ MergedRow(i).status = "active"
          /\ MergedRow(i).health_reason = "search_alias_license_type"
    /\ \E i \in DOMAIN output :
          /\ output[i].status = 404
          /\ output[i].mapped = NoMapped
          /\ MergedRow(i).status = "dead"

\* The records of a host that have a license, and the size of the largest
\* group among them that shares one license, counted directly on the rows.
KnownOn(rows, host) ==
    {j \in DOMAIN rows : rows[j].license # Null /\ rows[j].url.host = host}

SharingLicense(rows, host, lic) == {j \in KnownOn(rows, host) : rows[j].license = lic}

MajorityCount(rows, host) ==
    LET sizes == {Cardinality(SharingLicense(rows, host, rows[j].license)) :
                     j \in KnownOn(rows, host)}
    IN  IF sizes = {} THEN 0 ELSE CHOOSE n \in sizes : \A m \in sizes : m <= n

\* The gate of C9 on the rows the run started from: the fallback is enabled,
\* the host has known samples, at least domainMinKnown of them, and the
\* majority's share is at least domainMinPurity (in percent).
GatePasses(rows, host, opts) ==
    /\ opts.useDomainConsensus
    /\ KnownOn(rows, host) # {}
    /\ Cardinality(KnownOn(rows, host)) >= opts.domainMinKnown
    /\ MajorityCount(rows, host) * 100 >= opts.domainMinPurity * Cardinality(KnownOn(rows, host))

\* An earlier strategy (live page, archived snapshot, alias page) decided.
DecidedEarlier(o) ==
    \/ o.mapped.source \in PageSources
    \/ StartsWithWayback(o.mapped.source)
    \/ StartsWithSearchAlias(o.mapped.source)

Inspected == {i \in DOMAIN output : output[i] # NoOutcome}

\* C9: the domain-consensus fallback decides for a record exactly when it is
\* enabled, no earlier strategy decided, and the record's host has a consensus
\* entry with total >= domainMinKnown and purity >= domainMinPurity, both
\* bounds inclusive.
C9_ConsensusGate ==
    phase \in {"running", "merged"} => \A i \in Inspected :
        (output[i].mapped.source = "domain_consensus")
            <=> (/\ ~DecidedEarlier(output[i])
                 /\ GatePasses(diskUrls, missingRows[i].url.host, options))

\* 15 known samples at 100% purity decide with domainMinKnown = 10.
C9_Witness ==
    /\ phase = "running"
    /\ options.domainMinKnown = 10
    /\ \E i \in Inspected :
          /\ output[i].mapped.source = "domain_consensus"
          /\ Cardinality(KnownOn(diskUrls, missingRows[i].url.host)) = 15
          /\ MajorityCount(diskUrls, missingRows[i].url.host) = 15

\* C10: a record whose live fetch returned 200 without evidence that decides,
\* and whose host passes the consensus gate, is after the merge active, with a
\* license that is the host's majority id and health_reason domain_consensus.
C10_ConsensusEndToEnd ==
    Merged => \A i \in DOMAIN output :
        (/\ output[i].status = 200
         /\ ~DecidedEarlier(output[i])
         /\ GatePasses(diskUrls, missingRows[i].url.host, options)) =>
            /\ MergedRow(i).status = "active"
            /\ MergedRow(i).health_reason = "domain_consensus"
            /\ MergedRow(i).license # Null
            /\ Cardinality(SharingLicense(diskUrls, missingRows[i].url.host,
                                          MergedRow(i).license))
                  = MajorityCount(diskUrls, missingRows[i].url.host)

\* 25 known samples, 23 of them (92%) with license 3, minimum purity 0.9.
C10_Witness ==
    /\ Merged
    /\ options.domainMinPurity = 90
    /\ \E i \in DOMAIN output :
          /\ output[i].status = 200
          /\ Cardinality(KnownOn(diskUrls, missingRows[i].url.host)) = 25
          /\ MajorityCount(diskUrls, missingRows[i].url.host) = 23
          /\ MergedRow(i).status = "active"
          /\ MergedRow(i).license = 3
          /\ MergedRow(i).health_reason = "domain_consensus"

\* ------------------------------------------------------------------------
\* Claims about histories of runs (checked under SpecHistory)
\* ------------------------------------------------------------------------

\* No process is running: every run of the history has ended.
Quiet == phase = "idle"

\* The replay of the whole report history on the dataset the history started
\* from gives the rows of urls.json, whatever order the reports are listed in.
ReplayGivesDataset ==
    \A listing \in Listings : replayReports(initialUrls, sortReports(listing)) = diskUrls

\* C4 as stated: replaying the full history of run reports, oldest first, on
\* the initial record set gives for every record the url, license, status,
\* health_checked_at and health_reason that the runs left in the dataset.
C4_ReplayEquivalence == Quiet => ReplayGivesDataset

\* C4 amended: the same, provided every report of the history was written by
\* a run with --write; a dry run writes a report whose outcomes are merged
\* into no dataset, and the replay applies them all the same.
C4_ReplayEquivalenceOfWrites ==
    (Quiet /\ \A k \in DOMAIN reports : reports[k].write) => ReplayGivesDataset

\* Two runs with --write, the second of which decided a record that the first
\* left unresolved.
C4_Witness ==
    /\ Quiet
    /\ Len(reports) = 2
    /\ reports[1].write /\ reports[2].write
    /\ \E a \in DOMAIN reports[1].results, b \in DOMAIN reports[2].results :
          /\ reports[1].results[a].url_id = reports[2].results[b].url_id
          /\ reports[1].results[a].mapped = NoMapped
          /\ reports[2].results[b].mapped # NoMapped
    /\ diskUrls # initialUrls

\* ------------------------------------------------------------------------
\* Claims about the Evidence Reconciler (checked under SpecDecide)
\* ------------------------------------------------------------------------

\* The case of C5: no type marker, one section id, one different name id.
ConflictingSingletons ==
    /\ typeIds = {}
    /\ Cardinality(sectionIds) = 1
    /\ Cardinality(nameIds) = 1
    /\ sectionIds # nameIds

C6_PriorityOrder ==
    decided =>
        LET all == typeIds \cup sectionIds \cup nameIds
            r1 == Cardinality(typeIds) = 1
            r2 == Cardinality(all) = 1
            r3 == Cardinality(sectionIds) = 1
            r4 == Cardinality(nameIds) = 1
        IN  /\ r1 => (decision.source = "license_type" /\ decision.bcId \in typeIds)
            /\ (~r1 /\ r2) =>
                   (decision.source = "combined_single" /\ decision.bcId \in all)
            /\ (~r1 /\ ~r2 /\ r3) =>
                   (decision.source = "license_section" /\ decision.bcId \in sectionIds)
            /\ (~r1 /\ ~r2 /\ ~r3 /\ r4) =>
                   (decision.source = "license_name" /\ decision.bcId \in nameIds)
            /\ (~r1 /\ ~r2 /\ ~r3 /\ ~r4) => decision = NoDecision

\* The precedence example of C6: type {3}, section {3,5} decides 3 by rule 1.
C6_Witness ==
    /\ decided
    /\ typeIds = {3}
    /\ sectionIds = {3, 5}
    /\ decision = [bcId |-> 3, source |-> "license_type"]

\* ------------------------------------------------------------------------
\* Claims about alias discovery (checked under SpecAlias)
\* ------------------------------------------------------------------------

AliasReturned == call.fn = "findBandcampAliasAlbumUrl" /\ ret.returned

\* The links of the answer to query q whose item slug is the record's slug; a
\* search that failed or answered with an empty body has no results.
MatchingLinks(q) ==
    IF call.searches[q].ok /\ call.searches[q].text
    THEN {l \in call.searches[q].links : l.slug = call.originalUrl.slug}
    ELSE {}

\* The searches made: the queries are two, three for a slug that ends in a
\* number, and no query is sent once an earlier one returned a matching link.
QueryIssued(q) ==
    /\ q <= (IF call.originalUrl.slug = "ep-2" THEN 3 ELSE 2)
    /\ \A p \in 1..(q - 1) : MatchingLinks(p) = {}

CollectedLinks == UNION {MatchingLinks(q) : q \in {k \in 1..3 : QueryIssued(k)}}

\* C11: alias discovery yields no substitution whenever the results of the
\* searches it made hold two or more distinct album links with the record's
\* slug, and a substitution is made only of the one matching link collected.
C11_AliasAmbiguityRejected ==
    AliasReturned =>
        /\ Cardinality(CollectedLinks) >= 2 => ret.value = NoUrl
        /\ ret.value # NoUrl => CollectedLinks = {ret.value}

\* A search answered with two distinct links of the record's slug, and the
\* call returned no alias.
C11_Witness ==
    /\ AliasReturned
    /\ Cardinality(CollectedLinks) = 2
    /\ ret.value = NoUrl

\* ------------------------------------------------------------------------
\* Claims about the fallback chain of one record (checked under SpecChain)
\* ------------------------------------------------------------------------

ChainReturned == call.fn = "inspectRow" /\ ret.returned

ChainOrder == <<"live", "archive", "alias", "consensus">>

Rank(strategy) == CHOOSE k \in DOMAIN ChainOrder : ChainOrder[k] = strategy

\* The strategy a provenance tag belongs to.
StrategyOf(source) ==
    IF source = "domain_consensus" THEN "consensus"
    ELSE IF source \in {"wayback_license_type", "wayback_combined_single",
                        "wayback_license_section", "wayback_license_name"} THEN "archive"
    ELSE IF source \in {"search_alias_license_type", "search_alias_combined_single",
                        "search_alias_license_section", "search_alias_license_name"}
    THEN "alias"
    ELSE "live"

PageDecides(fetched) ==
    /\ fetched.ok
    /\ fetched.page.text
    /\ DecisionOn(fetched.page, validBcIdsOf(InitialLicenses),
                  slugToBcIdOf(InitialLicenses)) # NoDecision

\* Whether a strategy, when tried on the record of the call, gives a decision.
Decides(strategy) ==
    LET env == call.env
        host == call.row.url.host
    IN  CASE strategy = "live" -> PageDecides(env.live)
          [] strategy = "archive" ->
                /\ call.options.useArchive
                /\ env.live.status = 404
                /\ findWaybackSnapshotUrl(env.fromAvailable, env.cdx) # "none"
                /\ PageDecides(env.archived)
          [] strategy = "alias" ->
                /\ call.options.useSearchAlias
                /\ env.live.status = 404
                /\ findBandcampAliasAlbumUrl(call.row.url, env.searches) # NoUrl
                /\ PageDecides(env.alias)
          [] strategy = "consensus" ->
                /\ call.options.useDomainConsensus
                /\ host \in DOMAIN call.domainConsensus
                /\ consensusAccepted(call.domainConsensus[host], call.options)

Deciding == {k \in DOMAIN ChainOrder : Decides(ChainOrder[k])}

\* C12: the strategies are consulted in the order live, archive, alias,
\* consensus; the outcome's provenance is that of the earliest strategy in
\* this order that decides, no strategy is consulted after it, and an outcome
\* is unresolved only when none decides.
C12_ChainOrderShortCircuit ==
    ChainReturned =>
        LET steps == ret.consulted
            mapped == ret.value.mapped
        IN  /\ steps[1] = "live"
            /\ \A i, j \in DOMAIN steps : i < j => Rank(steps[i]) < Rank(steps[j])
            /\ Deciding = {} <=> mapped = NoMapped
            /\ Deciding # {} =>
                  LET first == CHOOSE k \in Deciding : \A m \in Deciding : k <= m
                  IN  /\ StrategyOf(mapped.source) = ChainOrder[first]
                      /\ steps[Len(steps)] = ChainOrder[first]

\* The archive decides a record whose alias page and whose host's consensus
\* would decide too: the outcome is the archive's and the chain ends there.
C12_Witness ==
    /\ ChainReturned
    /\ Decides("archive") /\ Decides("alias") /\ Decides("consensus")
    /\ ret.consulted = <<"live", "archive">>
    /\ StrategyOf(ret.value.mapped.source) = "archive"

\* Still unresolved after the live and archive steps.
UnresolvedAfterArchive == ~Decides("live") /\ ~Decides("archive")

AliasAttempted == \E k \in DOMAIN ret.consulted : ret.consulted[k] = "alias"

\* C13 as stated: with alias fallback enabled, alias discovery is attempted
\* for every record still unresolved after the live and archive steps.
C13_AliasAlwaysAttempted ==
    (ChainReturned /\ call.options.useSearchAlias /\ UnresolvedAfterArchive)
        => AliasAttempted

\* C13 amended: with alias fallback enabled, alias discovery is attempted for
\* every record whose live fetch answered 404 and that is still unresolved
\* after the live and archive steps, and for no record whose live fetch
\* answered anything else or failed.
C13_AliasAttemptedOnNotFound ==
    ChainReturned =>
        (AliasAttempted <=>
            /\ call.options.useSearchAlias
            /\ call.env.live.status = 404
            /\ UnresolvedAfterArchive)

\* A record whose live fetch answered 404, whose archive was asked and gave no
\* decision, and for which the alias search was made.
C13_Witness ==
    /\ ChainReturned
    /\ call.options.useSearchAlias /\ call.options.useArchive
    /\ call.env.live.status = 404
    /\ UnresolvedAfterArchive
    /\ ret.consulted[2] = "archive"
    /\ AliasAttempted

\* ------------------------------------------------------------------------
\* Claims about the url of a merged record (checked under Spec)
\* ------------------------------------------------------------------------

\* The j-th row was decided through the alias strategy in this run.
DecidedViaAlias(j) ==
    /\ HasResult(output, urls[j].url_id)
    /\ StrategyOf(ResultById(output, urls[j].url_id).mapped.source) = "alias"

\* C14: the merge, and the replay of the run's report, rewrite a record's url
\* only when its outcome was decided through the alias strategy, and then to
\* the outcome's alias URL, which differs from the url the record had; the url
\* of every other record is the one it had.
C14_UrlRewrittenOnlyByAlias ==
    Merged => \A j \in DOMAIN urls :
        LET replayed == replayResults(diskUrls, output, runTimestamp)[j]
        IN  IF DecidedViaAlias(j)
            THEN LET o == ResultById(output, urls[j].url_id)
                 IN  /\ o.alias_url # NoUrl
                     /\ o.alias_url # diskUrls[j].url
                     /\ urls[j].url = o.alias_url
                     /\ replayed.url = o.alias_url
            ELSE /\ urls[j].url = diskUrls[j].url
                 /\ replayed.url = diskUrls[j].url

\* One record moved to the alias found for it, and another, decided by its
\* live page, kept its url.
C14_Witness ==
    /\ Merged
    /\ \E j, k \in DOMAIN urls :
          /\ DecidedViaAlias(j)
          /\ urls[j].url = MovedUrl(diskUrls[j].url)
          /\ HasResult(output, urls[k].url_id)
          /\ StrategyOf(ResultById(output, urls[k].url_id).mapped.source) = "live"
          /\ ResultById(output, urls[k].url_id).mapped # NoMapped
          /\ urls[k].url = diskUrls[k].url

\* ------------------------------------------------------------------------
\* Claims about the orchestrator (checked under SpecOrchestrator)
\* ------------------------------------------------------------------------

\* The orchestrator has evaluated the report of its last pass and is asleep
\* or done; the reports of its passes are then the last of the directory.
PassEvaluated == orch.pc \in {"sleeping", "done"}

PassReport(k) == exactReports[Len(exactReports) - orch.pass + k]

\* The number of passes up to pass k, counted back from it, that mapped nothing.
RECURSIVE ZeroMappedRun(_)
ZeroMappedRun(k) ==
    IF k = 0 THEN 0
    ELSE IF PassReport(k).mapped # 0 THEN 0
    ELSE 1 + ZeroMappedRun(k - 1)

AllChildrenExited == \A k \in DOMAIN children : children[k].state = "exited"

\* C15: the no-progress counter is the number of consecutive passes, up to
\* the last, that mapped nothing (zero after a pass that mapped something);
\* with a stall threshold N > 0 the loop is done right after the N-th such
\* pass, whatever the pass cap, and no further pass is started.
C15_StallTermination ==
    PassEvaluated =>
        /\ orch.consecutiveNoProgress = ZeroMappedRun(orch.pass)
        /\ orch.stopAfterNoProgressPasses > 0 =>
              /\ ZeroMappedRun(orch.pass) <= orch.stopAfterNoProgressPasses
              /\ ZeroMappedRun(orch.pass) = orch.stopAfterNoProgressPasses => orch.pc = "done"
        /\ orch.pc = "done" => Len(children) = orch.pass /\ AllChildrenExited

\* With threshold 3 and no pass cap, a pass that mapped a record and then
\* three passes that mapped none: the loop is done after the fourth pass with
\* records still missing.
C15_Witness ==
    /\ orch.pc = "done"
    /\ orch.stopAfterNoProgressPasses = 3
    /\ orch.maxPasses = 0
    /\ orch.pass = 4
    /\ PassReport(1).mapped > 0
    /\ orch.consecutiveNoProgress = 3
    /\ PassReport(4).missing_after > 0

PassCapReached == orch.maxPasses > 0 /\ orch.pass >= orch.maxPasses

\* Leaving the sleep, the loop counts one pass and starts one pass process.
OneMorePass ==
    (orch.pc = "sleeping" /\ orch' # orch) =>
        /\ orch'.pass = orch.pass + 1
        /\ orch'.pc \in {"awaitPass", "failed"}
        /\ orch'.pc = "awaitPass" =>
              /\ Len(children') = Len(children) + 1
              /\ children'[Len(children')].state = "running"
        /\ orch'.pc = "failed" => children' = children

\* C16 as stated: after a pass the orchestrator is done exactly when the
\* unresolved-after count is zero, or the no-progress run has reached the
\* stall threshold, or the pass number has reached a positive pass cap.
C16_DoneExactlyWhen ==
    PassEvaluated =>
        (orch.pc = "done" <=>
            \/ PassReport(orch.pass).missing_after = 0
            \/ ZeroMappedRun(orch.pass) >= orch.stopAfterNoProgressPasses
            \/ PassCapReached)

\* C16 amended: the same with a stall threshold that counts only when it is
\* positive (0 switches stall detection off, as 0 switches the pass cap off);
\* in every other case the orchestrator sleeps and then runs one more pass.
C16_DoneExactlyWhenPositive ==
    /\ [](PassEvaluated =>
            (orch.pc = "done" <=>
                \/ PassReport(orch.pass).missing_after = 0
                \/ /\ orch.stopAfterNoProgressPasses > 0
                   /\ ZeroMappedRun(orch.pass) >= orch.stopAfterNoProgressPasses
                \/ PassCapReached))
    /\ [][OneMorePass]_vars

\* After a first pass that left records missing, with no stall and no cap
\* reached, the orchestrator slept and a second pass is running.
C16_Witness ==
    /\ orch.pc = "awaitPass"
    /\ orch.pass = 2
    /\ orch.evaluated = 1
    /\ orch.stopAfterNoProgressPasses = 0
    /\ orch.consecutiveNoProgress = 1
    /\ children[2].state = "running"

\* C17: at most one pass process runs at any time, and when pass k+1 is
\* started pass k's process has exited and its report has been evaluated.
C17_PassesNeverOverlap ==
    /\ Cardinality({k \in DOMAIN children : children[k].state = "running"}) <= 1
    /\ \A k \in DOMAIN children :
          k < Len(children) => children[k] = ExitedChild("0") /\ orch.evaluated >= k

C17_Witness ==
    /\ Len(children) = 3
    /\ children[3].state = "running"
    /\ orch.evaluated = 2

\* C18: a pass whose process exits with a code other than 0, or cannot be
\* spawned, is the last: its report, if it wrote one, is not evaluated, no
\* pass follows it, and the orchestrator neither sleeps nor is done but fails.
C18_FailedPassHalts ==
    /\ \A k \in DOMAIN children :
          (children[k].state = "exited" /\ children[k].code # "0") =>
              /\ k = Len(children)
              /\ orch.pass = k
              /\ orch.evaluated < k
              /\ orch.pc \in {"awaitPass", "failed"}
    /\ orch.pc = "failed" => orch.evaluated < orch.pass
    /\ Len(children) < orch.pass => orch.pc = "failed"

\* The second pass wrote its report and exited with code 1: the orchestrator
\* failed without evaluating the report.
C18_Witness ==
    /\ orch.pc = "failed"
    /\ orch.pass = 2
    /\ Len(children) = 2
    /\ children[2] = ExitedChild("1")
    /\ Len(exactReports) >= 2
    /\ orch.evaluated = 1

\* ------------------------------------------------------------------------
\* Claims about the worker pool (checked under SpecPool)
\* ------------------------------------------------------------------------

PoolAlive == phase \in {"running", "merged"}

\* The indices of the records being processed, and of those with a result.
InFlight == {worker[w] : w \in {x \in 1..MaxConcurrency : worker[x] # 0}}

Processed == {i \in DOMAIN output : output[i] # NoOutcome}

\* A result, once stored, is not stored again.
ResultsKept ==
    (phase = "running" /\ phase' \in {"running", "merged"}) =>
        \A i \in Processed : output'[i] = output[i]

\* C19: under every interleaving of the workers, no record is held by two
\* workers, no record is held again once it has a result, the records taken
\* are those before the cursor, the result at index i is the outcome of the
\* record at index i, at most min(concurrency, list length) records are in
\* process, and when the pool ends every record has its one result.
C19_EachRecordOnce ==
    /\ [](PoolAlive =>
            /\ \A w1, w2 \in 1..MaxConcurrency :
                  (w1 # w2 /\ worker[w1] # 0) => worker[w1] # worker[w2]
            /\ InFlight \cap Processed = {}
            /\ InFlight \cup Processed = 1..Min(nextIndex - 1, Len(missingRows))
            /\ \A i \in Processed : /\ output[i].url_id = missingRows[i].url_id
                                    /\ output[i].url = missingRows[i].url
            /\ Cardinality(InFlight) <= Min(options.concurrency, Len(missingRows))
            /\ phase = "merged" => Processed = DOMAIN missingRows)
    /\ [][ResultsKept]_vars

\* Two workers and three records: the first record has its result, its
\* worker went on with the third while the other still holds the second.
C19_Witness ==
    /\ phase = "running"
    /\ options.concurrency = 2
    /\ Processed = {1}
    /\ InFlight = {2, 3}

\* One callback: the completed count goes up by one and so does the sum of
\* the two counters.
OneCallback ==
    (phase = "running" /\ phase' = "running" /\ <<completed, progress>>' # <<completed, progress>>)
        => /\ completed' = completed + 1
           /\ progress'.mapped + progress'.unresolved = completed'
           /\ Cardinality({i \in DOMAIN output : output'[i] # output[i]}) = 1

\* C20: one progress callback per completed record: the completed count goes
\* from 1 to the total by steps of one, the mapped and unresolved counters
\* sum to it at every callback and count the mapped and the unresolved
\* results, and when the pool ends the completed count is the total.
C20_OneCallbackPerRecord ==
    /\ [](PoolAlive =>
            /\ completed = Cardinality(Processed)
            /\ progress.mapped + progress.unresolved = completed
            /\ progress.mapped = Cardinality({i \in Processed : output[i].mapped # NoMapped})
            /\ completed <= Len(missingRows)
            /\ phase = "merged" => completed = Len(missingRows))
    /\ [][OneCallback]_vars

\* The pool ended on three records, one mapped and two unresolved.
C20_Witness ==
    /\ phase = "merged"
    /\ completed = 3
    /\ progress = [mapped |-> 1, unresolved |-> 2]

\* ------------------------------------------------------------------------
\* Claims about the retry loops (checked under SpecFetch)
\* ------------------------------------------------------------------------

InFetchWithRetries == call.fn = "fetchWithRetries"

\* The last attempt ended in a transport failure or a retryable status.
Transient(fetched) == ~fetched.ok \/ fetched.status \in RETRYABLE_HTTP_STATUSES

\* Another fetchText call is made only after an attempt that ended in a
\* transport failure or a retryable status.
RepeatsOnlyOnTransient ==
    (InFetchWithRetries /\ call.fetches >= 1 /\ call'.fetches = call.fetches + 1)
        => Transient(call.last)

\* C21: fetchWithRetries makes at most retries + 1 attempts, repeats an
\* attempt only after a retryable status or a transport failure (a timeout
\* among them), and returns the result of its last attempt, response or
\* failure with its error message, also when the attempts are used up.
C21_BoundedRetries ==
    /\ [](InFetchWithRetries =>
            /\ call.fetches <= call.retries + 1
            /\ ret.returned => /\ call.fetches >= 1
                               /\ ret.value = call.last
                               /\ ret.value \in FetchTexts
                               /\ ~ret.value.ok => ret.value.error # "none"
            /\ (~ret.returned /\ call.pc = "fetch") => call.fetches <= call.retries)
    /\ [][RepeatsOnlyOnTransient]_vars

\* Two retries, three attempts, the last one aborted on its timeout: the
\* failure is returned.
C21_Witness ==
    /\ InFetchWithRetries
    /\ call.retries = 2
    /\ call.fetches = 3
    /\ ret.returned
    /\ ret.value = FetchFailed("This operation was aborted")

\* C22: the delay slept before retry k is min(cap, base * 2^(k-1)): from one
\* retry to the next it does not shrink, it doubles until the cap, and it
\* never exceeds the cap.
C22_BackoffDelays ==
    call.fn \in {"fetchWithRetries", "inspectListing"} =>
        /\ Len(call.slept) <= call.retries
        /\ \A k \in 1..Len(call.slept) :
              /\ call.slept[k] = Min(call.cap, call.base * Pow2(k - 1))
              /\ call.slept[k] <= call.cap
              /\ k > 1 => /\ call.slept[k] >= call.slept[k - 1]
                          /\ call.slept[k] = Min(call.cap, 2 * call.slept[k - 1])

\* Five retries of fetchWithRetries: the delays double from 600 and the fifth
\* is the cap.
C22_Witness ==
    /\ InFetchWithRetries
    /\ call.slept = <<600, 1200, 2400, 4800, 8000>>

\* ------------------------------------------------------------------------
\* Claims about failures of the fetches of one record
\* ------------------------------------------------------------------------

\* An outcome value: mapped to a category with no reason, or unresolved
\* with a reason.
IsOutcome(o) ==
    \/ o.mapped # NoMapped /\ o.mapped.bc_id # Null /\ o.reason = "none"
    \/ o.mapped = NoMapped /\ o.reason # "none"

\* C23 (checked under Spec): whatever the live, archive, search and alias
\* fetches of a record answer, failures included, the record gets an outcome
\* value, mapped or unresolved with a reason; while records are left a worker
\* holds one of them, and the pool ends with an outcome for every record.
C23_FailuresBecomeOutcomes ==
    PoolAlive =>
        /\ \A i \in Processed : /\ IsOutcome(output[i])
                                /\ output[i].url_id = missingRows[i].url_id
        /\ (phase = "running" /\ Processed # DOMAIN missingRows) =>
              \E w \in 1..MaxConcurrency :
                 worker[w] \in DOMAIN missingRows /\ worker[w] \notin Processed
        /\ phase = "merged" => Processed = DOMAIN missingRows

\* The first record's live fetch failed and the second, processed after it,
\* was mapped.
C23_Witness ==
    /\ phase = "merged"
    /\ Len(output) = 2
    /\ output[1].reason = "fetch_error:fetch failed"
    /\ output[2].mapped # NoMapped

\* The outcome is unresolved with the reason made from the live fetch.
UnresolvedWithFetchReason ==
    /\ ret.value.mapped = NoMapped
    /\ ret.value.status = call.env.live.status
    /\ ret.value.reason =
          CASE ~call.env.live.ok /\ call.env.live.error = "fetch failed" ->
                  "fetch_error:fetch failed"
            [] call.env.live.ok /\ call.env.live.status = 503 -> "unresolved_status_503"
            [] OTHER -> "not a transient failure"

\* C24 as stated (checked under SpecChain): when the live fetch ends on a
\* transport failure or a retryable status, the outcome is unresolved with
\* a fetch-error or status reason.
C24_ExhaustedRetriesUnresolved ==
    (ChainReturned /\ Transient(call.env.live)) => UnresolvedWithFetchReason

\* C24, amended: when the live fetch ends on a transport failure or a
\* retryable status, the outcome is unresolved with the fetch-error or
\* status reason of that fetch unless the body of the last response or the
\* domain consensus decides the record, and then it is mapped from that one.
C24_ExhaustedRetriesUnresolvedUnlessDecided ==
    (ChainReturned /\ Transient(call.env.live)) =>
        /\ ret.consulted \in {<<"live">>, <<"live", "consensus">>}
        /\ IF Decides("live") THEN StrategyOf(ret.value.mapped.source) = "live"
           ELSE IF Decides("consensus") THEN ret.value.mapped.source = "domain_consensus"
           ELSE UnresolvedWithFetchReason

\* The live fetch ended on status 503 with every fallback enabled and the
\* consensus does not decide: unresolved_status_503.
C24_Witness ==
    /\ ChainReturned
    /\ call.env.live = Fetched(503, NoEvidencePage)
    /\ call.options.useArchive /\ call.options.useSearchAlias
    /\ call.options.useDomainConsensus
    /\ ~Decides("consensus")
    /\ ret.value.mapped = NoMapped
    /\ ret.value.reason = "unresolved_status_503"

\* The live page names several categories and no rule decides among them.
AmbiguousEvidence ==
    LET page == call.env.live.page
        ids == extractLicenseTypeIds(page, validBcIdsOf(InitialLicenses))
               \cup extractLicenseSectionIds(page, slugToBcIdOf(InitialLicenses))
               \cup extractLicenseNameIds(page, slugToBcIdOf(InitialLicenses))
    IN  /\ call.env.live.ok
        /\ page.text
        /\ Cardinality(ids) > 1
        /\ ~PageDecides(call.env.live)

\* The reason the same call gives when the live page, of the same status,
\* has no marker at all.
ReasonWithoutEvidence ==
    inspectRow(call.row, call.options, validBcIdsOf(InitialLicenses),
               slugToBcIdOf(InitialLicenses), call.domainConsensus,
               [call.env EXCEPT !.live = Fetched(call.env.live.status, NoEvidencePage)]).reason

\* C25 (checked under SpecChain): when the evidence of the live page is
\* ambiguous and no strategy decides, the outcome is unresolved with a
\* reason that differs from the reason given when no evidence was found.
C25_AmbiguityHasOwnReason ==
    (ChainReturned /\ AmbiguousEvidence /\ Deciding = {}) =>
        /\ ret.value.mapped = NoMapped
        /\ ret.value.reason # ReasonWithoutEvidence

\* ------------------------------------------------------------------------
\* Claims about bad options, unreadable files and dry runs (checked under
\* SpecFaults)
\* ------------------------------------------------------------------------

\* An option value outside what the help text allows.
InvalidOptions(opts) ==
    \/ opts.concurrency < 1
    \/ opts.domainMinKnown < 1
    \/ opts.domainMinPurity < 1
    \/ opts.domainMinPurity > 100

\* The tool ended in failure having read no dataset into memory, started no
\* worker, and left the files and the reports as they were.
FailsUntouched ==
    /\ ret' = Exit("1", FALSE, FALSE)
    /\ phase' = "idle"
    /\ urls' = << >>
    /\ missingRows' = << >>
    /\ output' = << >>
    /\ \A w \in 1..MaxConcurrency : worker'[w] = 0
    /\ UNCHANGED <<diskUrls, diskLicenses, reports, reconciled>>

StartWithInvalidOptionsFails ==
    \A opts \in FaultArgs, urlsFile \in FileStates, licensesFile \in FileStates :
       (InvalidOptions(opts) /\ MainStarts(opts, urlsFile, licensesFile)) => FailsUntouched

\* C26: a start of the fixer with an invalid option value fails at once: no
\* dataset is read, no worker starts and so no fetch is issued, no report is
\* written and no record changes; no run is ever under way with such a value.
C26_InvalidOptionsFailAtStartup ==
    /\ [](phase # "idle" => ~InvalidOptions(options))
    /\ []((call.fn = "main" /\ InvalidOptions(call.options)) =>
             ret = Exit("1", FALSE, FALSE) /\ phase = "idle")
    /\ [][StartWithInvalidOptionsFails]_vars

\* After a run that wrote its report, a start with --concurrency 0 and both
\* files readable has failed.
C26_Witness ==
    /\ call.fn = "main"
    /\ call.options.concurrency = 0
    /\ call.urlsFile = "json" /\ call.licensesFile = "json"
    /\ ret.value = "1"
    /\ Len(reports) = 1

\* The tool of the last start could not read one of its inputs.
UnreadableDataFile == call.urlsFile # "json" \/ call.licensesFile # "json"

StartWithUnreadableFileFails ==
    /\ \A opts \in FaultArgs, urlsFile \in FileStates, licensesFile \in FileStates :
          ((urlsFile # "json" \/ licensesFile # "json")
             /\ MainStarts(opts, urlsFile, licensesFile)) => FailsUntouched
    /\ \A write \in BOOLEAN, urlsFile \in FileStates \ {"json"},
          malformed \in SUBSET DOMAIN reports :
          ReconcilerRuns(write, urlsFile, malformed) => FailsUntouched

\* The reconciler replays the reports that parse and only those.
ReplaysReadableReports ==
    \A write \in BOOLEAN, malformed \in SUBSET DOMAIN reports :
       (reports # << >> /\ ReconcilerRuns(write, "json", malformed)) =>
          /\ ret' = Exit("0", TRUE, write)
          /\ \E listing \in Orders(Without(reports, malformed)) :
                reconciled' = replayReports(diskUrls, sortReports(listing))
          /\ write => diskUrls' = reconciled'

DryRunOfFixer == phase = "merged" /\ ~options.write /\ phase' = "idle"

\* A reconciler run without --write.
DryRunOfReconciler == call.fn = "none" /\ call'.fn = "reconciler" /\ ~call'.options.write

DryRunLeavesData ==
    /\ DryRunOfFixer => /\ diskUrls' = diskUrls
                        /\ diskLicenses' = diskLicenses
                        /\ reports' = Append(reports, payload)
    /\ DryRunOfReconciler => /\ diskUrls' = diskUrls
                             /\ diskLicenses' = diskLicenses
                             /\ ~ret'.wrote
                             /\ (ret'.value = "0" /\ reports # << >>) => ret'.reported

\* C28: without --write a run of the fixer and a run of the reconciler leave
\* the record file and the license file as they were and only write a report.
C28_DryRunLeavesData ==
    /\ [][DryRunLeavesData]_vars
    /\ []((reports # << >> /\ \A k \in DOMAIN reports : ~reports[k].write)
             => diskLicenses = InitialLicenses)

\* A dry run mapped a record and wrote its report, a dry run of the
\* reconciler followed, and the record file is the one the history began with.
C28_Witness ==
    /\ Len(reports) = 1
    /\ ~reports[1].write
    /\ reports[1].mapped >= 1
    /\ call.fn = "reconciler"
    /\ ~call.options.write
    /\ ret.reported
    /\ reconciled # diskUrls
    /\ diskUrls = initialUrls

\* ------------------------------------------------------------------------
\* Claim about the reports of the passes (checked under SpecOrchestrator)
\* ------------------------------------------------------------------------

\* The reports that lay under reports/ before the orchestrator started (the
\* first pass of a run reports two missing records, the stale report one).
ReportsBefore == IF exactReports # << >> /\ exactReports[1] = StaleReport THEN 1 ELSE 0

\* The report the k-th pass process of this run wrote.
WrittenByPass(k) == exactReports[ReportsBefore + k]

\* A pass process that ends with exit code 0 has appended its report, made
\* from the dataset it found.
SuccessfulPassWritesReport ==
    \A k \in DOMAIN children :
       (children[k].state = "running" /\ children'[k] = ExitedChild("0")) =>
          /\ Len(exactReports') = Len(exactReports) + 1
          /\ SubSeq(exactReports', 1, Len(exactReports)) = exactReports
          /\ exactReports'[Len(exactReports')].missing_before = MissingCountOf(diskUrls)
          /\ exactReports'[Len(exactReports')].missing_after = MissingCountOf(diskUrls')

\* The evaluation after a pass goes by the report that pass wrote.
EvaluatesOwnReport ==
    (orch.pc = "awaitPass" /\ orch'.pc \in {"sleeping", "done"}) =>
        LET report == WrittenByPass(orch.pass)
        IN  /\ Len(exactReports) = ReportsBefore + orch.pass
            /\ orch'.evaluated = orch.pass
            /\ orch'.consecutiveNoProgress =
                  IF report.mapped = 0 THEN orch.consecutiveNoProgress + 1 ELSE 0
            /\ report.missing_after = 0 => orch'.pc = "done"
            /\ report.missing_after = MissingCountOf(diskUrls)

\* C29: a pass that ends successfully has written a new report, also when
\* it mapped nothing, and what the orchestrator evaluates after pass k is
\* the report pass k wrote, never one that lay there before or that an
\* earlier pass wrote.
C29_EvaluatesReportOfThePass ==
    /\ [][SuccessfulPassWritesReport]_vars
    /\ [][EvaluatesOwnReport]_vars
    /\ []((orch.pc = "awaitPass" /\ children[Len(children)] = ExitedChild("0")) =>
             Len(exactReports) = ReportsBefore + orch.pass)

\* A report lay there that says everything is mapped; the first pass mapped
\* nothing, wrote its report and was counted as a pass without progress.
C29_Witness ==
    /\ orch.pc = "sleeping"
    /\ orch.pass = 1
    /\ Len(exactReports) = 2
    /\ exactReports[1] = StaleReport
    /\ exactReports[2].mapped = 0
    /\ orch.consecutiveNoProgress = 1

\* ------------------------------------------------------------------------
\* Claim about the merge after the pool (checked under SpecPool)
\* ------------------------------------------------------------------------

\* The results that belong to the record of the i-th row.
ResultsOfRow(i) == {j \in DOMAIN output : output[j].url_id = diskUrls[i].url_id}

\* C30: the merged record set is a function of the rows read and of the
\* outcome of each record alone: whatever the order in which the workers
\* completed, the rows keep their order and every row is the row read,
\* merged with the one outcome of its own record.
C30_MergeIndependentOfCompletionOrder ==
    Merged =>
        /\ Len(urls) = Len(diskUrls)
        /\ \A i \in DOMAIN urls :
              /\ urls[i].url_id = diskUrls[i].url_id
              /\ IF ResultsOfRow(i) = {}
                 THEN urls[i] = diskUrls[i]
                 ELSE /\ Cardinality(ResultsOfRow(i)) = 1
                      /\ urls[i] = mergeRow(diskUrls[i], output[TheOnly(ResultsOfRow(i))],
                                            runTimestamp)

\* Two workers shared three records whose outcomes differ: one mapped, one
\* not found, one whose fetch failed.
C30_Witness ==
    /\ Merged
    /\ options.concurrency = 2
    /\ output[1].reason = "fetch_error:fetch failed"
    /\ output[2].reason = "unresolved_status_404"
    /\ output[3].mapped # NoMapped
    /\ urls[3].license = output[3].mapped.bc_id
    /\ urls[1].license = Null

\* ------------------------------------------------------------------------
\* Claims about what a pass reads and what a merge writes
\* ------------------------------------------------------------------------

\* While the workers run, the rows and the consensus table stay as they are.
WorkersOnlyRead ==
    (phase = "running" /\ phase' = "running") =>
        UNCHANGED <<urls, domainConsensus, diskUrls, diskLicenses>>

\* C31 (checked under Spec): while the workers run no row changes, in memory
\* or on disk; the consensus table is the one of the rows read before they
\* started; and a record is decided by consensus only if the gate passes on
\* those rows, whatever was found for other records meanwhile.
C31_PassReadsSnapshot ==
    /\ [][WorkersOnlyRead]_vars
    /\ [](phase = "running" =>
            /\ urls = diskUrls
            /\ domainConsensus = buildDomainConsensus(diskUrls))
    /\ [](PoolAlive => \A i \in Processed :
            output[i].mapped.source = "domain_consensus" =>
               /\ GatePasses(diskUrls, missingRows[i].url.host, options)
               /\ Cardinality(SharingLicense(diskUrls, missingRows[i].url.host,
                                             output[i].mapped.bc_id))
                     = MajorityCount(diskUrls, missingRows[i].url.host))

\* Two records of a host with no known record, one known record being
\* enough for the gate: the first is mapped from its page, and the second,
\* inspected in the same pass, is not mapped by consensus.
C31_Witness ==
    /\ phase = "running"
    /\ options.useDomainConsensus
    /\ options.domainMinKnown = 1
    /\ Len(missingRows) = 2
    /\ missingRows[1].url.host = missingRows[2].url.host
    /\ KnownOn(diskUrls, missingRows[1].url.host) = {}
    /\ output[1].mapped.source = "license_type"
    /\ output[2] # NoOutcome
    /\ output[2].mapped = NoMapped

\* The fields no merge may touch are equal in both rows.
SameFrozenFields(before, after) ==
    /\ DOMAIN after = DOMAIN before
    /\ after.url_id = before.url_id
    /\ after.title = before.title
    /\ after.tags = before.tags
    /\ after.favorite = before.favorite

\* The record of the id has an outcome in one of the reports.
InSomeReport(listing, url_id) ==
    \E k \in DOMAIN listing : \E j \in DOMAIN listing[k].results :
       listing[k].results[j].url_id = url_id

\* The merge of the fixer, in memory.
MergeFrame ==
    (phase = "running" /\ phase' = "merged") =>
        /\ Len(urls') = Len(urls)
        /\ \A i \in DOMAIN urls :
              /\ SameFrozenFields(urls[i], urls'[i])
              /\ ~HasResult(output, urls[i].url_id) => urls'[i] = urls[i]

\* Every write of urls.json, by the fixer or by the reconciler.
WriteFrame ==
    /\ Len(diskUrls') = Len(diskUrls)
    /\ \A i \in DOMAIN diskUrls :
          /\ SameFrozenFields(diskUrls[i], diskUrls'[i])
          /\ ~InSomeReport(reports', diskUrls[i].url_id) => diskUrls'[i] = diskUrls[i]
          /\ SameFrozenFields(initialUrls[i], diskUrls'[i])

\* C32 (checked under SpecHistory): a merge, and the write that follows it,
\* by the fixer or by the reconciler, keeps the number and order of the
\* records, leaves url_id, title, tags and favorite of every record as they
\* were, adds no field, and leaves a record without an outcome unchanged.
C32_MergeFrame ==
    /\ [][MergeFrame]_vars
    /\ [][WriteFrame]_vars

\* A run with --write mapped the record without a license; the record with a
\* license, which no report names, is on disk as the history began with it.
C32_Witness ==
    /\ phase = "idle"
    /\ Len(diskUrls) = 2
    /\ Len(reports) = 1
    /\ reports[1].write
    /\ diskUrls[1] = initialUrls[1]
    /\ diskUrls[2].license # Null
    /\ diskUrls[2].status = "active"
    /\ diskUrls[2].health_checked_at # 0
    /\ diskUrls[2].tags = <<1, 2>>

\* ---------------------------------------------------------------------------
\* C33  Replay order of the Report Reconciler
\* ---------------------------------------------------------------------------

\* The reports of the history that contain an outcome for the record at row i.
ReportsNaming(i) ==
    {k \in DOMAIN reports :
        \E j \in DOMAIN reports[k].results : reports[k].results[j].url_id = diskUrls[i].url_id}

\* The outcome report k holds for the record at row i.
OutcomeIn(k, i) ==
    reports[k].results[CHOOSE j \in DOMAIN reports[k].results :
                           reports[k].results[j].url_id = diskUrls[i].url_id]

\* The report of S with the greatest generation timestamp.
LatestOf(S) ==
    CHOOSE k \in S : \A m \in S : reports[m].generated_at <= reports[k].generated_at

\* A step of the reconciler: the only step that starts and ends idle.
ReconcilerStep == phase = "idle" /\ phase' = "idle" /\ reports # << >>

\* The record at row i after the replay is what the outcome of the latest
\* report containing it makes of the record as it was before the replay.
LatestOutcomeDetermines(i) ==
    LET named == ReportsNaming(i)
    IN  IF named = {} THEN reconciled'[i] = diskUrls[i]
        ELSE reconciled'[i] = replayRow(diskUrls[i], OutcomeIn(LatestOf(named), i),
                                        reports[LatestOf(named)].generated_at)

\* C33 (as stated): whatever the order the report files are listed in, every
\* record that appears in reports ends the replay in the state determined by
\* the outcome of the latest report containing it.
C33_LatestOutcomeDetermines ==
    [][ReconcilerStep => \A i \in DOMAIN diskUrls : LatestOutcomeDetermines(i)]_vars

\* Field by field: status, health_reason and health_checked_at come from the
\* latest report containing the record; the license comes from the latest
\* report that mapped it and the url from the latest report that mapped it
\* through an alias; a later unresolved outcome clears neither.
LatestOutcomeByField(i) ==
    LET named == ReportsNaming(i)
        mappedIn == {k \in named : OutcomeIn(k, i).mapped.bc_id # Null}
        movedIn == {k \in named : /\ OutcomeIn(k, i).mapped # NoMapped
                                  /\ StartsWithSearchAlias(OutcomeIn(k, i).mapped.source)
                                  /\ OutcomeIn(k, i).alias_url # NoUrl}
    IN  IF named = {} THEN reconciled'[i] = diskUrls[i]
        ELSE LET latest == LatestOf(named)
                 last == replayRow(diskUrls[i], OutcomeIn(latest, i), reports[latest].generated_at)
             IN  /\ reconciled'[i].health_checked_at = reports[latest].generated_at
                 /\ reconciled'[i].status = last.status
                 /\ reconciled'[i].health_reason = last.health_reason
                 /\ reconciled'[i].license =
                       IF mappedIn = {} THEN diskUrls[i].license
                       ELSE OutcomeIn(LatestOf(mappedIn), i).mapped.bc_id
                 /\ reconciled'[i].url =
                       IF movedIn = {} THEN diskUrls[i].url
                       ELSE OutcomeIn(LatestOf(movedIn), i).alias_url

\* C33 (amended): reports are applied in ascending generation-timestamp order
\* whatever the listing order, and a later outcome overrides an earlier one
\* field by field: health fields from the latest report containing the
\* record, license and url from the latest report that set them.
C33_LatestOutcomeByField ==
    [][ReconcilerStep => \A i \in DOMAIN diskUrls : LatestOutcomeByField(i)]_vars

\* A replay over two reports that both contain a record, the later one
\* unresolved after the earlier one mapped it.
C33_Witness ==
    /\ phase = "idle"
    /\ reconciled # << >>
    /\ \E i \in DOMAIN diskUrls :
          /\ Cardinality(ReportsNaming(i)) = 2
          /\ OutcomeIn(LatestOf(ReportsNaming(i)), i).mapped = NoMapped
          /\ \E k \in ReportsNaming(i) : OutcomeIn(k, i).mapped.bc_id # Null
          /\ reconciled[i].license # Null
          /\ reconciled[i].status # "active"

\* ---------------------------------------------------------------------------
\* C34  License counts after a write-mode pass of the exact fixer
\* ---------------------------------------------------------------------------

\* A pass of the exact fixer the orchestrator ran has written both files.
ExactPassWrote == \E k \in DOMAIN children : children[k] = ExitedChild("0")

\* The records with active status referencing category bc_id.
ActiveReferencing(rows, bc_id) ==
    {j \in DOMAIN rows : normalizedStatus(rows[j].status) = "active" /\ rows[j].license = bc_id}

\* C34: after a write-mode pass of the exact fixer, every license category's
\* count equals the number of records with active status referencing it.
C34_ExactCountsActiveRecords ==
    ExactPassWrote =>
        \A i \in DOMAIN diskLicenses :
           diskLicenses[i].count =
              Cardinality(ActiveReferencing(diskUrls, diskLicenses[i].bc_id))

\* ---------------------------------------------------------------------------
\* C35  The dataset invariant after a write by the Report Reconciler
\* ---------------------------------------------------------------------------

\* Every category's count is the number of active records referencing it and
\* every active record carries a known license.
CountsAndLicensesSound(rows, catalog) ==
    /\ licenseCountMismatches(rows, catalog) = {}
    /\ invalidActiveRows(rows, catalog) = {}

\* C35: a write by the Report Reconciler over a dataset whose license counts
\* match its active records and whose active records all carry a known
\* license leaves a dataset of which the same is true.
C35_ReconcilerKeepsCounts ==
    [][(ReconcilerStep /\ CountsAndLicensesSound(diskUrls, diskLicenses))
          => CountsAndLicensesSound(diskUrls', diskLicenses')]_vars

\* ---------------------------------------------------------------------------
\* C36  Mapped outcomes carry a known category id
\* ---------------------------------------------------------------------------

\* C36: every mapped outcome the resolver produced in the pass, whichever
\* strategy decided it, carries a license id of the known category id set.
C36_MappedOutcomeIsKnownCategory ==
    \A i \in Inspected :
       output[i].mapped # NoMapped => output[i].mapped.bc_id \in validBcIdsOf(licenses)

\* ---------------------------------------------------------------------------
\* C37  The unresolved count across write-mode passes
\* ---------------------------------------------------------------------------

\* A step in which a pass of the exact fixer ends having written both files.
PassWrites ==
    /\ Len(children') = Len(children)
    /\ \E k \in DOMAIN children :
          children[k].state = "running" /\ children'[k] = ExitedChild("0")

\* The dataset holds no two records with the same url_id.
UniqueUrlIds(rows) ==
    \A i, j \in DOMAIN rows : rows[i].url_id = rows[j].url_id => i = j

\* C37: over records with unique url_id, a write-mode pass leaves as many
\* unresolved records as there were before it minus the pass's mapped count,
\* and no step of the orchestrator's run increases the unresolved count.
C37_UnresolvedCountDecreasesByMapped ==
    [][/\ MissingCountOf(diskUrls') <= MissingCountOf(diskUrls)
       /\ (PassWrites /\ UniqueUrlIds(diskUrls)) =>
             LET report == exactReports'[Len(exactReports')]
             IN  /\ Cardinality({i \in DOMAIN diskUrls' : diskUrls'[i].license = Null})
                       = Cardinality({i \in DOMAIN diskUrls : diskUrls[i].license = Null})
                            - report.mapped
                 /\ report.missing_before - report.mapped = report.missing_after]_vars

\* A pass has written after mapping one of two unresolved records.
C37_Witness ==
    /\ ExactPassWrote
    /\ UniqueUrlIds(diskUrls)
    /\ exactReports # << >>
    /\ exactReports[Len(exactReports)].mapped = 1
    /\ exactReports[Len(exactReports)].missing_before = 2
    /\ Cardinality({i \in DOMAIN diskUrls : diskUrls[i].license = Null}) = 1

\* ---------------------------------------------------------------------------
\* C38  Termination of the orchestrator loop
\* ---------------------------------------------------------------------------

\* main() of the orchestrator has returned or rejected.
LoopOver == orch.pc \in {"done", "failed"}

\* Neither the pass cap nor the stall threshold is set.
Unlimited == orch.maxPasses = 0 /\ orch.stopAfterNoProgressPasses = 0

\* C38: when every pass terminates, a loop with a stall threshold greater
\* than zero eventually ends, whatever the pass cap (0 = unlimited); and a
\* loop with stall threshold 0 and pass cap 0 ends only when no unresolved
\* record is left.
C38_LoopTerminates ==
    /\ (orch.stopAfterNoProgressPasses > 0) => <>LoopOver
    /\ []((orch.pc = "done" /\ Unlimited) =>
             \A i \in DOMAIN diskUrls : diskUrls[i].license # Null)

\* A loop without pass cap that the stall threshold ended after a pass that
\* mapped a record and passes that mapped none.
C38_Witness ==
    /\ orch.pc = "done"
    /\ orch.maxPasses = 0
    /\ orch.stopAfterNoProgressPasses > 1
    /\ orch.consecutiveNoProgress = orch.stopAfterNoProgressPasses
    /\ orch.pass > orch.stopAfterNoProgressPasses
    /\ \E i \in DOMAIN diskUrls : diskUrls[i].license = Null

\* ---------------------------------------------------------------------------
\* C39  Domain consensus after a failed or 404 live fetch
\* ---------------------------------------------------------------------------

\* The outcomes of the pass that domain consensus mapped.
MappedByConsensus ==
    {i \in Inspected : output[i].mapped.source = "domain_consensus"}

\* C39: a record mapped by domain consensus whose live fetch never observed
\* an HTTP status is merged as active with health_reason domain_consensus;
\* one whose live status is 404 is merged as dead; both with the license set.
C39_ConsensusAfterFailedFetch ==
    Merged =>
        \A i \in MappedByConsensus :
           /\ MergedRow(i).license = output[i].mapped.bc_id
           /\ MergedRow(i).license # Null
           /\ output[i].status = Null =>
                 /\ MergedRow(i).status = "active"
                 /\ MergedRow(i).health_reason = "domain_consensus"
           /\ output[i].status = 404 => MergedRow(i).status = "dead"

\* A merged pass in which domain consensus mapped a record whose live fetch
\* failed at transport level and a record whose live status was 404.
C39_Witness ==
    /\ Merged
    /\ \E i \in MappedByConsensus :
          /\ output[i].status = Null
          /\ MergedRow(i).status = "active"
    /\ \E i \in MappedByConsensus :
          /\ output[i].status = 404
          /\ MergedRow(i).status = "dead"

\* ---------------------------------------------------------------------------
\* C40  Tag counts after a write
\* ---------------------------------------------------------------------------

\* The run has ended and its write changed the dataset.
DatasetWritten == phase = "idle" /\ diskUrls # initialUrls

\* The records the write turned from unresolved into visible active records.
MadeVisible ==
    {i \in DOMAIN diskUrls :
        /\ initialUrls[i].license = Null
        /\ isVisibleActiveRow(diskUrls[i], validBcIdsOf(diskLicenses))}

\* The tag ids whose count in tags.json the verifier finds wrong.
MismatchedTagIds ==
    {diskTags[t].tag_id : t \in tagCountMismatches(diskUrls, diskTags, diskLicenses)}

\* C40: no step of the fixer writes tags.json; after a write the license
\* counts match the visible records again, while every tag of a record the
\* write made visible has a count the verifier's tag-count check rejects.
C40_TagCountsNotRecomputed ==
    /\ [][diskTags' = diskTags]_vars
    /\ [](DatasetWritten =>
             /\ licenseCountMismatches(diskUrls, diskLicenses) = {}
             /\ \A i \in MadeVisible :
                   \A k \in DOMAIN diskUrls[i].tags :
                      diskUrls[i].tags[k] \in MismatchedTagIds)

\* A write made a tagged unresolved record visible and another one dead or
\* unverified.
C40_Witness ==
    /\ DatasetWritten
    /\ MadeVisible # {}
    /\ MismatchedTagIds # {}
    /\ \E i \in DOMAIN diskUrls :
          initialUrls[i].license = Null /\ diskUrls[i].status \in {"dead", "unverified"}

====
